---- MODULE Spec2Model ----
(***************************************************************************)
(* A model of the machine-mode RISC-V platform code of diosix              *)
(* (platform-riscv): physical memory protection (physmem.rs), the Sv39     *)
(* page-table walker (mmu.rs), supervisor context save and restore         *)
(* (cpu.rs), timer value conversions (timer.rs) and the SBI call handler   *)
(* (syscalls.rs).  The target is RV64: cfg!(target_arch = "riscv64").      *)
(*                                                                         *)
(* Machine words are 64 bits wide in the program.  Every value the model   *)
(* draws is below 2^31, so a mask of 31 bits or more is total on the       *)
(* model's values and the two's-complement SBI error codes are written as  *)
(* the negative numbers they encode.                                       *)
(***************************************************************************)
EXTENDS Integers, Naturals, Sequences, FiniteSets, TLC

(***************************************************************************)
(* Bounds of the model.                                                    *)
(***************************************************************************)
\* number of protect() calls explored in one behaviour
MaxProtects == 2
\* protect() is called with base and end among the word addresses 0, 4, .., 4*MaxAddrWords
MaxAddrWords == 2
\* protect() is called with the low region IDs 0..MaxRegion, and the boundary IDs
MaxRegion == 1

(***************************************************************************)
(* Bit arithmetic on naturals, as the program's &, |, <<, >> compute it.   *)
(***************************************************************************)
Pow2(n) == 2 ^ n

Shl(x, n) == x * Pow2(n)

Shr(x, n) == x \div Pow2(n)

\* x & ((1 << bits) - 1); the model's values are below 2^31
LowBits(x, bits) == IF bits >= 31 THEN x ELSE x % Pow2(bits)

RECURSIVE BitAnd(_, _)
BitAnd(a, b) ==
    IF a = 0 \/ b = 0 THEN 0
    ELSE (a % 2) * (b % 2) + 2 * BitAnd(a \div 2, b \div 2)

RECURSIVE BitOr(_, _)
BitOr(a, b) ==
    IF a = 0 THEN b
    ELSE IF b = 0 THEN a
    ELSE (IF a % 2 = 1 \/ b % 2 = 1 THEN 1 ELSE 0) + 2 * BitOr(a \div 2, b \div 2)

None == [some |-> FALSE, val |-> 0]

Some(v) == [some |-> TRUE, val |-> v]

(***************************************************************************)
(* physmem.rs: physical memory protection.                                 *)
(***************************************************************************)
PHYS_PMP_MAX_REGIONS == 15
PHYS_PMP_READ == 1
PHYS_PMP_WRITE == 2
PHYS_PMP_EXEC == 4
PHYS_PMP_TOR == 8

\* enum AccessPermissions
AccessPermissions == {"Read", "ReadWrite", "ReadExecute", "NoAccess"}

\* the PMP address registers pmpaddr0..pmpaddr15
PmpAddrRegs == 0 .. 15

\* the PMP configuration registers of RV64, pmpcfg0 and pmpcfg2, each eight
\* config bytes wide: byte k of pmpcfg0 is pmp<k>cfg, byte k of pmpcfg2 is pmp<8+k>cfg
PmpCfgRegs == {0, 2}

CfgBytes == 0 .. 7

ZeroCfgWord == [k \in CfgBytes |-> 0]

\* the state of one core's PMP CSRs after reset
PmpReset == [cfg |-> [n \in PmpCfgRegs |-> ZeroCfgWord], addr |-> [i \in PmpAddrRegs |-> 0]]

\* read_pmpcfg (64-bit): the value of pmpcfgN, or 0 for any other N
read_pmpcfg(pmp, register) ==
    IF register \in PmpCfgRegs THEN pmp.cfg[register] ELSE ZeroCfgWord

\* write_pmpcfg (64-bit): writes pmpcfg0 or pmpcfg2, silently ignores any other N
write_pmpcfg(pmp, register, value) ==
    IF register \in PmpCfgRegs
    THEN [pmp EXCEPT !.cfg[register] = value]
    ELSE pmp

\* write_pmpaddr: writes pmpaddr0..15, silently ignores any other register
write_pmpaddr(pmp, register, value) ==
    IF register \in PmpAddrRegs
    THEN [pmp EXCEPT !.addr[register] = value]
    ELSE pmp

\* the match on access in protect
AccessFlags(access) ==
    CASE access = "Read" -> PHYS_PMP_READ
      [] access = "ReadWrite" -> BitOr(PHYS_PMP_READ, PHYS_PMP_WRITE)
      [] access = "ReadExecute" -> BitOr(PHYS_PMP_READ, PHYS_PMP_EXEC)
      [] access = "NoAccess" -> 0

\* word & !(0xff << shift), on a config word held as its eight bytes
ClearCfgByte(word, shift) == [word EXCEPT ![shift \div 8] = 0]

\* word | (bits << shift), bits below 256 and shift a multiple of 8
OrCfgByte(word, bits, shift) == [word EXCEPT ![shift \div 8] = BitOr(@, bits)]

\* the (pmpcfg_reg, shift) pair of the RV64 branch of protect
PmpCfgSelect(regionid) ==
    [reg |-> Shl(Shr(regionid, 3), 1),
     shift |-> Shl(regionid - Shl(Shr(regionid, 3), 3), 3)]

\* protect(regionid, base, end, access) on the PMP state pmp:
\* the PMP state it leaves and the value it returns
protect(pmp, regionid, base, end, access) ==
    IF regionid > PHYS_PMP_MAX_REGIONS
    THEN [pmp |-> pmp, ret |-> FALSE]
    ELSE LET accessbits == BitOr(PHYS_PMP_TOR, AccessFlags(access))
             sel == PmpCfgSelect(regionid)
             cfgbits == ClearCfgByte(read_pmpcfg(pmp, sel.reg), sel.shift)
             p1 == write_pmpcfg(pmp, sel.reg, OrCfgByte(cfgbits, accessbits, sel.shift))
             p2 == write_pmpaddr(p1, Shl(regionid, 1), base)
             p3 == write_pmpaddr(p2, Shl(regionid, 1) + 1, end)
         IN  [pmp |-> p3, ret |-> TRUE]

\* the config byte pmp<entry>cfg of PMP entry 0..15
PmpEntryCfg(pmp, entry) == pmp.cfg[Shl(Shr(entry, 3), 1)][entry % 8]

\* a PMP region is the pair of entries 2*region and 2*region + 1; there are 8 of them
PmpRegions == 8

\* region r is active when its end entry, 2r + 1, is in top-of-range mode
PmpRegionActive(pmp, r) ==
    BitAnd(PmpEntryCfg(pmp, 2 * r + 1), PHYS_PMP_TOR) = PHYS_PMP_TOR

\* validate_pmp_phys_addr(addr): Some(addr) iff addr lies inside an active region,
\* whose bounds are the byte addresses its address registers hold shifted right by two
validate_pmp_phys_addr(pmp, addr) ==
    IF \E r \in 0 .. PmpRegions - 1 :
           /\ PmpRegionActive(pmp, r)
           /\ Shl(pmp.addr[2 * r], 2) <= addr
           /\ addr < Shl(pmp.addr[2 * r + 1], 2)
    THEN Some(addr)
    ELSE None

(***************************************************************************)
(* mmu.rs: the page-table walker.                                          *)
(*                                                                         *)
(* satp is held as its fields [mode, ppn] (bits 60..63 and 0..43 of the    *)
(* CSR).  The words the guest has stored in the page-table slots the walk  *)
(* reads are the function entries: level |-> the word in the slot read at  *)
(* that level.                                                             *)
(***************************************************************************)
PAGE_SIZE == 4096
PAGE_OFFSET_MASK == PAGE_SIZE - 1
RV64_SATP_MODE_SV39 == 8
RV64_SATP_MODE_SV48 == 9
\* SV39_VADDR_MASK = (1 << 39) - 1
SV39_VADDR_BITS == 39
SV39_VPN_BASE_SHIFT == 12
SV39_VPN_SHIFT == 9
SV39_VPN_COUNT == 3
\* (1 << 10) - 1
SV39_VPN_MASK == 1023
SV39_TABLE_ENTRIES == 512
SV39_PTE_PPN_BASE_SHIFT == 10
SV39_PTE_PPN_SHIFT == 9
\* (1 << 10) - 1
SV39_PTE_PPN_MASK == 1023
\* SV39_PTE_PPN_FULL_MASK = (1 << 44) - 1
SV39_PTE_PPN_FULL_BITS == 44
SV39_PHYS_PPN_BASE_SHIFT == 12
SV39_PHYS_PPN_SHIFT == 9
PAGE_BITS_VALID == 1
PAGE_BITS_READ == 2
PAGE_BITS_WRITE == 4
PAGE_BITS_EXEC == 8
PAGE_RWX_MASK == BitOr(PAGE_BITS_READ, BitOr(PAGE_BITS_WRITE, PAGE_BITS_EXEC))

\* what a walk has done so far: the tables it loaded (each load copies the
\* PAGE_SIZE bytes from the table's address) and the entry indexes it computed
NoTrace == [loads |-> <<>>, indexes |-> <<>>]

WalkNone(trace) == [outcome |-> "none", paddr |-> 0, trace |-> trace]

WalkSome(paddr, trace) == [outcome |-> "some", paddr |-> paddr, trace |-> trace]

\* table[entry_index] with entry_index outside the 512-entry array panics
WalkPanic(trace) == [outcome |-> "panic", paddr |-> 0, trace |-> trace]

\* the first inner loop of the superpage branch: for index in (vpn..SV39_VPN_COUNT).rev()
RECURSIVE SuperpagePtePart(_, _, _)
SuperpagePtePart(entry, index, vpn) ==
    IF index < vpn THEN 0
    ELSE LET pte_ppn_shift == SV39_PTE_PPN_BASE_SHIFT + (SV39_PTE_PPN_SHIFT * index)
             paddr_ppn_shift == SV39_PHYS_PPN_BASE_SHIFT + (SV39_PHYS_PPN_SHIFT * index)
             pte_ppn == BitAnd(Shr(entry, pte_ppn_shift), SV39_PTE_PPN_MASK)
         IN  BitOr(Shl(pte_ppn, paddr_ppn_shift), SuperpagePtePart(entry, index - 1, vpn))

\* the second inner loop of the superpage branch: for index in (0..vpn).rev()
RECURSIVE SuperpageVaddrPart(_, _)
SuperpageVaddrPart(vaddr, index) ==
    IF index < 0 THEN 0
    ELSE LET vpn_shift == SV39_VPN_BASE_SHIFT + (SV39_VPN_SHIFT * index)
             paddr_ppn_shift == SV39_PHYS_PPN_BASE_SHIFT + (SV39_PHYS_PPN_SHIFT * index)
             pte_ppn == BitAnd(Shr(vaddr, vpn_shift), SV39_VPN_MASK)
         IN  BitOr(Shl(pte_ppn, paddr_ppn_shift), SuperpageVaddrPart(vaddr, index - 1))

\* the physical address built from a leaf entry found at level vpn
Sv39LeafPaddr(entry, vaddr, vpn) ==
    LET page_offset == BitAnd(vaddr, PAGE_OFFSET_MASK)
    IN  IF vpn > 0
        THEN BitOr(page_offset,
                   BitOr(SuperpagePtePart(entry, SV39_VPN_COUNT - 1, vpn),
                         SuperpageVaddrPart(vaddr, vpn - 1)))
        ELSE LET entry_phys_addr ==
                     LowBits(Shr(entry, SV39_PTE_PPN_BASE_SHIFT), SV39_PTE_PPN_FULL_BITS)
             IN  BitOr(page_offset, Shl(entry_phys_addr, SV39_PHYS_PPN_BASE_SHIFT))

\* a walk that takes every valid entry with a permission bit for a mapping
RECURSIVE Sv39LevelAnyLeaf(_, _, _, _, _, _)
Sv39LevelAnyLeaf(p, entries, table_addr, vaddr, vpn, trace) ==
    IF vpn < 0 THEN WalkNone(trace)
    ELSE IF \/ ~validate_pmp_phys_addr(p, table_addr).some
            \/ ~validate_pmp_phys_addr(p, table_addr + PAGE_SIZE - 1).some
    THEN WalkNone(trace)
    ELSE LET shift == SV39_VPN_BASE_SHIFT + (vpn * SV39_VPN_SHIFT)
             entry_index == BitAnd(Shr(vaddr, shift), SV39_VPN_MASK)
             loaded == [loads |-> Append(trace.loads, table_addr),
                        indexes |-> Append(trace.indexes, entry_index)]
             entry == entries[vpn]
             entry_rwx == BitAnd(entry % 256, PAGE_RWX_MASK)
         IN  IF entry_index >= SV39_TABLE_ENTRIES THEN WalkPanic(loaded)
             ELSE IF BitAnd(entry % 256, PAGE_BITS_VALID) # PAGE_BITS_VALID
             THEN WalkNone(loaded)
             ELSE IF entry_rwx = 0
             THEN Sv39LevelAnyLeaf(p, entries,
                     LowBits(Shr(entry, SV39_PTE_PPN_BASE_SHIFT), SV39_PTE_PPN_FULL_BITS)
                         * PAGE_SIZE,
                     vaddr, vpn - 1, loaded)
             ELSE WalkSome(Sv39LeafPaddr(entry, vaddr, vpn), loaded)

\* one iteration of the loop of sv39_to_phys, at level vpn, and the iterations after it
RECURSIVE Sv39Level(_, _, _, _, _, _)
Sv39Level(p, entries, table_addr, vaddr, vpn, trace) ==
    IF vpn < 0 THEN WalkNone(trace)
    ELSE IF \/ ~validate_pmp_phys_addr(p, table_addr).some
            \/ ~validate_pmp_phys_addr(p, table_addr + PAGE_SIZE - 1).some
    THEN WalkNone(trace)
    ELSE LET shift == SV39_VPN_BASE_SHIFT + (vpn * SV39_VPN_SHIFT)
             entry_index == BitAnd(Shr(vaddr, shift), SV39_VPN_MASK)
             loaded == [loads |-> Append(trace.loads, table_addr),
                        indexes |-> Append(trace.indexes, entry_index)]
             entry == entries[vpn]
             entry_rwx == BitAnd(entry % 256, PAGE_RWX_MASK)
         IN  IF entry_index >= SV39_TABLE_ENTRIES THEN WalkPanic(loaded)
             ELSE IF BitAnd(entry % 256, PAGE_BITS_VALID) # PAGE_BITS_VALID
             THEN WalkNone(loaded)
             ELSE IF entry_rwx = 0
             THEN Sv39Level(p, entries,
                     LowBits(Shr(entry, SV39_PTE_PPN_BASE_SHIFT), SV39_PTE_PPN_FULL_BITS)
                         * PAGE_SIZE,
                     vaddr, vpn - 1, loaded)
             ELSE IF \/ BitAnd(entry_rwx, PAGE_BITS_EXEC) = PAGE_BITS_EXEC
                     \/ BitAnd(entry_rwx, PAGE_BITS_READ) = PAGE_BITS_READ
             THEN WalkSome(Sv39LeafPaddr(entry, vaddr, vpn), loaded)
             ELSE WalkNone(loaded)

sv39_to_phys(p, entries, table_addr, vaddr) ==
    Sv39Level(p, entries, table_addr, LowBits(vaddr, SV39_VADDR_BITS),
              SV39_VPN_COUNT - 1, NoTrace)

\* the stub: no mapping
sv48_to_phys(root_table_addr, vaddr) == WalkNone(NoTrace)

\* supervisor_addr_to_phys(saddr) on RV64, with the satp CSR and the PMP state it reads
supervisor_addr_to_phys(p, satp, entries, saddr) ==
    IF satp.mode = 0
    THEN IF validate_pmp_phys_addr(p, saddr).some
         THEN WalkSome(saddr, NoTrace)
         ELSE WalkNone(NoTrace)
    ELSE LET root_table == satp.ppn * PAGE_SIZE
         IN  CASE satp.mode = RV64_SATP_MODE_SV39 ->
                      sv39_to_phys(p, entries, root_table, saddr)
               [] satp.mode = RV64_SATP_MODE_SV48 -> sv48_to_phys(root_table, saddr)
               [] OTHER -> WalkNone(NoTrace)

(***************************************************************************)
(* cpu.rs: supervisor context save and restore.                            *)
(*                                                                         *)
(* The live CSRs are the function csr, the register frame stacked by the   *)
(* trap entry stub is context (irq::IRQContext.registers), the live        *)
(* floating-point registers are fregs.                                     *)
(***************************************************************************)
MSTATUS_MPP_SUPERVISOR == 2048
MSTATUS_FS_SHIFT == 13
MSTATUS_FS_MASK == 3
MSTATUS_FS_DIRTY == 3
MSTATUS_FS_CLEAN == 2
MSTATUS_FS_OFF == 0
CPUFEATURES_DP_FPU == 8
CPUFEATURES_SP_FPU == 32

\* the supervisor-level CSR fields of struct SupervisorState, in declaration order
SupervisorCsrs ==
    <<"sstatus", "sedeleg", "sideleg", "stvec", "sip", "sie", "scounteren",
      "sscratch", "sepc", "scause", "stval", "satp">>

\* all CSR fields of struct SupervisorState
StateCsrs == SupervisorCsrs \o <<"mepc", "mstatus">>

StateCsrNames == {StateCsrs[i] : i \in 1 .. Len(StateCsrs)}

\* the 32 slots of IRQContext.registers
ContextSlots == 0 .. 31

\* registers: [Reg; 31], x1..x31 with x0 skipped
StateRegs == 0 .. 30

FRegs == 0 .. 31

\* init_supervisor_cpu_state(cpu_nr, cpu_total, entry, dtb)
init_supervisor_cpu_state(cpu_nr, cpu_total, entry, dtb) ==
    [csr |-> [c \in StateCsrNames |->
                 CASE c = "mepc" -> entry
                   [] c = "mstatus" -> MSTATUS_MPP_SUPERVISOR
                   [] OTHER -> 0],
     registers |-> [i \in StateRegs |->
                 CASE i = 10 - 1 -> cpu_nr
                   [] i = 11 - 1 -> dtb
                   [] i = 12 - 1 -> cpu_total
                   [] OTHER -> 0]]

\* init_supervisor_fp_state(), given the misa feature bits of the core
init_supervisor_fp_state(features) ==
    LET dp == BitAnd(features, CPUFEATURES_DP_FPU)
        sp == BitAnd(features, CPUFEATURES_SP_FPU)
        width == IF dp = 0 /\ sp = CPUFEATURES_SP_FPU THEN 32
                 ELSE IF dp = CPUFEATURES_DP_FPU /\ sp = CPUFEATURES_SP_FPU THEN 64
                 ELSE 0
    IN  [fcsr |-> 0,
         registers |->
             CASE width = 32 -> [kind |-> "SinglePrecision", regs |-> [i \in FRegs |-> 0]]
               [] width = 64 -> [kind |-> "DoublePrecision", regs |-> [i \in FRegs |-> 0]]
               [] OTHER -> [kind |-> "None", regs |-> [i \in FRegs |-> 0]]]

\* the FS field of a machine status value
MstatusFS(mstatus) == BitAnd(Shr(mstatus, MSTATUS_FS_SHIFT), MSTATUS_FS_MASK)

\* the previous-privilege field of a machine status value: (mstatus >> 11) & 0b11
MstatusMPP(mstatus) == BitAnd(Shr(mstatus, 11), 3)

\* mstatus & !mask
ClearBits(value, mask) == value - BitAnd(value, mask)

\* platform_save_supervisor_cpu_state(state): stores the supervisor CSRs, mepc,
\* mstatus and the stacked x1..x31 to the state block
platform_save_supervisor_cpu_state(live_csr, frame) ==
    [csr |-> [c \in StateCsrNames |-> live_csr[c]],
     registers |-> [i \in StateRegs |-> frame[i + 1]]]

\* platform_load_supervisor_cpu_state(state): the live CSRs and the stacked
\* frame after the CSRs and x1..x31 are loaded from the state block
platform_load_supervisor_cpu_state(live_csr, frame, state) ==
    [csr |-> [c \in DOMAIN live_csr |->
                 IF c \in StateCsrNames THEN state.csr[c] ELSE live_csr[c]],
     frame |-> [k \in ContextSlots |-> IF k = 0 THEN frame[0] ELSE state.registers[k - 1]]]

\* save_supervisor_cpu_state(state)
save_supervisor_cpu_state(live_csr, frame) ==
    platform_save_supervisor_cpu_state(live_csr, frame)

\* save_supervisor_fp_state with the early return taken only when FS is off
save_supervisor_fp_state_unless_off(live_csr, live_fregs, fp_state) ==
    IF MstatusFS(live_csr["mstatus"]) = MSTATUS_FS_OFF
    THEN fp_state
    ELSE IF fp_state.registers.kind = "None"
    THEN fp_state
    ELSE [fp_state EXCEPT !.fcsr = live_csr["fcsr"]]

\* save_supervisor_fp_state(fp_state): the FP state block it leaves.  The match
\* binds the register array by value (mut sp, mut dp), so the platform routine
\* fills a copy and the array in the state block keeps its contents.
save_supervisor_fp_state(live_csr, live_fregs, fp_state) ==
    IF MstatusFS(live_csr["mstatus"]) # MSTATUS_FS_DIRTY
    THEN fp_state
    ELSE IF fp_state.registers.kind = "None"
    THEN fp_state
    ELSE [fp_state EXCEPT !.fcsr = live_csr["fcsr"]]

\* load_supervisor_fp_state(fp_state): the live fcsr and FP registers it leaves
load_supervisor_fp_state(live_csr, live_fregs, fp_state) ==
    IF fp_state.registers.kind = "None"
    THEN [csr |-> live_csr, fregs |-> live_fregs]
    ELSE [csr |-> [live_csr EXCEPT !["fcsr"] = fp_state.fcsr],
          fregs |-> fp_state.registers.regs]

\* load_supervisor_cpu_fp_state writing the clean FS value over the whole of mstatus
load_supervisor_cpu_fp_state_clobber(live_csr, frame, live_fregs, state, fp_state) ==
    LET cpu == platform_load_supervisor_cpu_state(live_csr, frame, state)
    IN  IF MstatusFS(cpu.csr["mstatus"]) # MSTATUS_FS_OFF
        THEN LET fp == load_supervisor_fp_state(cpu.csr, live_fregs, fp_state)
             IN  [csr |-> [fp.csr EXCEPT !["mstatus"] =
                              Shl(MSTATUS_FS_CLEAN, MSTATUS_FS_SHIFT)],
                  frame |-> cpu.frame,
                  fregs |-> fp.fregs]
        ELSE [csr |-> cpu.csr, frame |-> cpu.frame, fregs |-> live_fregs]

\* load_supervisor_cpu_fp_state leaving the FS field as the state block had it
load_supervisor_cpu_fp_state_keep_fs(live_csr, frame, live_fregs, state, fp_state) ==
    LET cpu == platform_load_supervisor_cpu_state(live_csr, frame, state)
    IN  IF MstatusFS(cpu.csr["mstatus"]) # MSTATUS_FS_OFF
        THEN LET fp == load_supervisor_fp_state(cpu.csr, live_fregs, fp_state)
             IN  [csr |-> fp.csr, frame |-> cpu.frame, fregs |-> fp.fregs]
        ELSE [csr |-> cpu.csr, frame |-> cpu.frame, fregs |-> live_fregs]

\* load_supervisor_cpu_fp_state(state, fp_state): the live CSRs, stacked frame
\* and FP registers it leaves
load_supervisor_cpu_fp_state(live_csr, frame, live_fregs, state, fp_state) ==
    LET cpu == platform_load_supervisor_cpu_state(live_csr, frame, state)
    IN  IF MstatusFS(cpu.csr["mstatus"]) # MSTATUS_FS_OFF
        THEN LET fp == load_supervisor_fp_state(cpu.csr, live_fregs, fp_state)
                 mstatus == ClearBits(fp.csr["mstatus"],
                                      Shl(MSTATUS_FS_MASK, MSTATUS_FS_SHIFT))
             IN  [csr |-> [fp.csr EXCEPT !["mstatus"] =
                              BitOr(mstatus, Shl(MSTATUS_FS_CLEAN, MSTATUS_FS_SHIFT))],
                  frame |-> cpu.frame,
                  fregs |-> fp.fregs]
        ELSE [csr |-> cpu.csr, frame |-> cpu.frame, fregs |-> live_fregs]

(***************************************************************************)
(* timer.rs: timer values and their conversions.  A TimerValue is a record *)
(* [unit, t]; all arithmetic is the truncating integer arithmetic of u64.  *)
(***************************************************************************)
THOUSAND == 1000
MILLION == 1 * THOUSAND * THOUSAND
BILLION == 1 * THOUSAND * MILLION

Nanoseconds(t) == [unit |-> "Nanoseconds", t |-> t]
Microseconds(t) == [unit |-> "Microseconds", t |-> t]
Milliseconds(t) == [unit |-> "Milliseconds", t |-> t]
Seconds(t) == [unit |-> "Seconds", t |-> t]
Exact(t) == [unit |-> "Exact", t |-> t]

\* TimerValue::to_exact(self, freq)
to_exact(self, freq) ==
    IF self.unit = "Nanoseconds" THEN (freq \div BILLION) * self.t
    ELSE IF self.unit = "Microseconds" THEN (freq \div MILLION) * self.t
    ELSE IF self.unit = "Milliseconds" THEN (freq \div THOUSAND) * self.t
    ELSE IF self.unit = "Seconds" THEN freq * self.t
    ELSE self.t

\* TimerValue::to_nanoseconds(self, freq)
to_nanoseconds(self, freq) ==
    Nanoseconds(IF self.unit = "Nanoseconds" THEN self.t
                ELSE IF self.unit = "Microseconds" THEN self.t * THOUSAND
                ELSE IF self.unit = "Milliseconds" THEN self.t * MILLION
                ELSE IF self.unit = "Seconds" THEN self.t * BILLION
                ELSE (self.t \div freq) * BILLION)

\* TimerValue::to_microseconds(self, freq)
to_microseconds(self, freq) ==
    Microseconds(IF self.unit = "Nanoseconds" THEN self.t \div THOUSAND
                 ELSE IF self.unit = "Microseconds" THEN self.t
                 ELSE IF self.unit = "Milliseconds" THEN self.t * THOUSAND
                 ELSE IF self.unit = "Seconds" THEN self.t * MILLION
                 ELSE (self.t \div freq) * MILLION)

\* TimerValue::to_milliseconds(self, freq)
to_milliseconds(self, freq) ==
    Milliseconds(IF self.unit = "Nanoseconds" THEN self.t \div MILLION
                 ELSE IF self.unit = "Microseconds" THEN self.t \div THOUSAND
                 ELSE IF self.unit = "Milliseconds" THEN self.t
                 ELSE IF self.unit = "Seconds" THEN self.t * THOUSAND
                 ELSE (self.t \div freq) * THOUSAND)

\* TimerValue::to_seconds(self, freq)
to_seconds(self, freq) ==
    Seconds(IF self.unit = "Nanoseconds" THEN self.t \div BILLION
            ELSE IF self.unit = "Microseconds" THEN self.t \div MILLION
            ELSE IF self.unit = "Milliseconds" THEN self.t \div THOUSAND
            ELSE IF self.unit = "Seconds" THEN self.t
            ELSE self.t \div freq)

(***************************************************************************)
(* syscalls.rs: the SBI call handler.  Register values are usize; the      *)
(* error codes, which the source writes as negative i32 values cast to     *)
(* usize, are kept as the negative numbers they are cast from.             *)
(***************************************************************************)
REG_A0 == 10
REG_A1 == 11
REG_A2 == 12
REG_A6 == 16
REG_A7 == 17

SBI_SPEC_VERSION == 2
SBI_IMPL_ID == 5
SBI_IMPL_VERSION == 1

SBI_EXT_DIOSIX == 167772160 + SBI_IMPL_ID
SBI_EXT_DIOSIX_YIELD == 0
SBI_EXT_DIOSIX_REGISTER_SERVICE == 1
SBI_EXT_DIOSIX_CONSOLE_PUTC == 2
SBI_EXT_DIOSIX_CONSOLE_GETC == 3
SBI_EXT_DIOSIX_HV_GETC == 4

SBI_SUCCESS == 0
SBI_ERR_NOT_SUPPORTED == -2

SBI_EXT_CONSOLE_PUTCHAR == 1
SBI_EXT_CONSOLE_GETCHAR == 2
SBI_EXT_SHUTDOWN == 8

SBI_EXT_BASE == 16
SBI_EXT_BASE_GET_SPEC_VERSION == 0
SBI_EXT_BASE_GET_IMPL_ID == 1
SBI_EXT_BASE_GET_IMPL_VERSION == 2
SBI_EXT_BASE_PROBE_EXTENSION == 3
SBI_EXT_BASE_GET_MVENDORID == 4
SBI_EXT_BASE_GET_MARCHID == 5
SBI_EXT_BASE_GET_MIMPLD == 6

SBI_EXT_TIMER == 1414090053
SBI_EXT_TIMER_SET == 0
SBI_LEGACY_TIMER_SET == 0

SBI_EXT_RFENCE == 1380339267
SBI_EXT_RFENCE_I == 0
SBI_EXT_RFENCE_SFENCE_VMA == 1
SBI_LEGACY_REMOTE_FENCE_I == 5
SBI_LEGACY_SFENCE_VMA == 6

SBI_EXT_SYS_RESET == 1397904212
SBI_EXT_SYS_RESET_FUNC == 0
SBI_EXT_SYS_RESET_SHUTDOWN == 0
SBI_EXT_SYS_RESET_COLD_REBOOT == 1
SBI_EXT_SYS_RESET_WARM_REBOOT == 2

\* the extensions the probe call reports, in the order of the table
SBI_EXTS ==
    << SBI_EXT_BASE, SBI_EXT_TIMER, SBI_EXT_RFENCE, SBI_EXT_SYS_RESET, SBI_EXT_DIOSIX,
       SBI_EXT_CONSOLE_PUTCHAR, SBI_EXT_CONSOLE_GETCHAR, SBI_LEGACY_REMOTE_FENCE_I,
       SBI_LEGACY_TIMER_SET >>

\* Option<Action>: None, or an action with up to two payload values
NoAction == [kind |-> "None", x |-> 0, y |-> 0]
Action(kind, x, y) == [kind |-> kind, x |-> x, y |-> y]

\* set_error_code(context, error_code)
set_error_code(ctx, error_code) == [ctx EXCEPT ![REG_A0] = error_code]

\* success() storing the result in a2 as well, as result_1extra() does
success_and_a2(ctx, result) ==
    [set_error_code(ctx, SBI_SUCCESS) EXCEPT ![REG_A1] = result, ![REG_A2] = result]

\* success(context, result)
success(ctx, result) ==
    [set_error_code(ctx, SBI_SUCCESS) EXCEPT ![REG_A1] = result]

\* what handler() leaves and returns: the frame, the action, and the
\* instructions and timer calls it made, in order
Handled(ctx, action, effects) == [context |-> ctx, action |-> action, effects |-> effects]

\* the probe loop: the first entry of SBI_EXTS equal to a0, or 0 when none is
RECURSIVE ProbeFrom(_, _)
ProbeFrom(ctx, i) ==
    IF i > Len(SBI_EXTS) THEN success(ctx, 0)
    ELSE IF ctx[REG_A0] = SBI_EXTS[i] THEN success(ctx, SBI_EXTS[i])
    ELSE ProbeFrom(ctx, i + 1)

\* the catch-all arm returning Unknown without setting the error code
HandlerCatchAllSilent(ctx, e, f) == Handled(ctx, Action("Unknown", e, f), <<>>)

\* the catch-all arm of handler(): (e, f) matched no other arm
HandlerCatchAll(ctx, e, f) ==
    Handled(set_error_code(ctx, SBI_ERR_NOT_SUPPORTED), Action("Unknown", e, f), <<>>)

\* the timer-set arm reading the target from a0 after success() has overwritten it
HandlerTimerSetLate(ctx) ==
    Handled(success(ctx, 0), Action("TimerIRQAt", Exact(success(ctx, 0)[REG_A0]), 0),
            <<"clear_supervisor_irq", "enable_supervisor_irq">>)

\* the timer-set arm of handler(): timer::clear_supervisor_irq(), then
\* timer::enable_supervisor_irq(), then the target is read from a0
HandlerTimerSet(ctx) ==
    Handled(success(ctx, 0), Action("TimerIRQAt", Exact(ctx[REG_A0]), 0),
            <<"clear_supervisor_irq", "enable_supervisor_irq">>)

\* the arms of handler() for the base extension
HandlerBase(ctx, function, ids) ==
    IF function = SBI_EXT_BASE_GET_SPEC_VERSION
    THEN Handled(success(ctx, SBI_SPEC_VERSION), NoAction, <<>>)
    ELSE IF function = SBI_EXT_BASE_GET_IMPL_ID
    THEN Handled(success(ctx, SBI_IMPL_ID), NoAction, <<>>)
    ELSE IF function = SBI_EXT_BASE_GET_IMPL_VERSION
    THEN Handled(success(ctx, SBI_IMPL_VERSION), NoAction, <<>>)
    ELSE IF function = SBI_EXT_BASE_PROBE_EXTENSION
    THEN Handled(ProbeFrom(ctx, 1), NoAction, <<>>)
    ELSE IF function = SBI_EXT_BASE_GET_MVENDORID
    THEN Handled(success(ctx, ids.mvendorid), NoAction, <<>>)
    ELSE IF function = SBI_EXT_BASE_GET_MARCHID
    THEN Handled(success(ctx, ids.marchid), NoAction, <<>>)
    ELSE IF function = SBI_EXT_BASE_GET_MIMPLD
    THEN Handled(success(ctx, ids.mimpid), NoAction, <<>>)
    ELSE HandlerCatchAll(ctx, SBI_EXT_BASE, function)

\* the arm of handler() for the system reset extension, function 0
HandlerSysReset(ctx) ==
    IF ctx[REG_A0] = SBI_EXT_SYS_RESET_SHUTDOWN
    THEN Handled(ctx, Action("Terminate", 0, 0), <<>>)
    ELSE IF ctx[REG_A0] \in {SBI_EXT_SYS_RESET_WARM_REBOOT, SBI_EXT_SYS_RESET_COLD_REBOOT}
    THEN Handled(ctx, Action("Restart", 0, 0), <<>>)
    ELSE Handled(set_error_code(ctx, SBI_ERR_NOT_SUPPORTED),
                 Action("Unknown", SBI_EXT_SYS_RESET, SBI_EXT_SYS_RESET_FUNC), <<>>)

\* the arms of handler() for the diosix extension
HandlerDiosix(ctx, function) ==
    IF function = SBI_EXT_DIOSIX_YIELD
    THEN Handled(success(ctx, 0), Action("Yield", 0, 0), <<>>)
    ELSE IF function = SBI_EXT_DIOSIX_REGISTER_SERVICE
    THEN Handled(success(ctx, 0), Action("RegisterService", ctx[REG_A0], 0), <<>>)
    ELSE IF function = SBI_EXT_DIOSIX_CONSOLE_PUTC
    THEN Handled(success(ctx, 0),
                 Action("ConsoleBufferWriteChar", BitAnd(ctx[REG_A0], 255), ctx[REG_A1]),
                 <<>>)
    ELSE IF function = SBI_EXT_DIOSIX_CONSOLE_GETC
    THEN Handled(ctx, Action("ConsoleBufferReadChar", 0, 0), <<>>)
    ELSE IF function = SBI_EXT_DIOSIX_HV_GETC
    THEN Handled(ctx, Action("HypervisorBufferReadChar", 0, 0), <<>>)
    ELSE HandlerCatchAll(ctx, SBI_EXT_DIOSIX, function)

\* handler(context), with ids the machine's mvendorid, marchid and mimpid
handler(ctx, ids) ==
    LET extension == ctx[REG_A7]
        function == ctx[REG_A6]
    IN  IF extension = SBI_EXT_CONSOLE_PUTCHAR
        THEN Handled(success(ctx, 0), Action("OutputChar", ctx[REG_A0] % 256, 0), <<>>)
        ELSE IF extension = SBI_EXT_CONSOLE_GETCHAR
        THEN Handled(ctx, Action("InputChar", 0, 0), <<>>)
        ELSE IF extension = SBI_EXT_SHUTDOWN
        THEN Handled(ctx, Action("Terminate", 0, 0), <<>>)
        ELSE IF extension = SBI_EXT_BASE
        THEN HandlerBase(ctx, function, ids)
        ELSE IF \/ extension = SBI_LEGACY_REMOTE_FENCE_I
                \/ (extension = SBI_EXT_RFENCE /\ function = SBI_EXT_RFENCE_I)
        THEN Handled(success(ctx, 0), NoAction, <<"fence.i">>)
        ELSE IF \/ extension = SBI_LEGACY_SFENCE_VMA
                \/ (extension = SBI_EXT_RFENCE /\ function = SBI_EXT_RFENCE_SFENCE_VMA)
        THEN Handled(success(ctx, 0), NoAction, <<"sfence.vma">>)
        ELSE IF \/ extension = SBI_LEGACY_TIMER_SET
                \/ (extension = SBI_EXT_TIMER /\ function = SBI_EXT_TIMER_SET)
        THEN HandlerTimerSet(ctx)
        ELSE IF extension = SBI_EXT_SYS_RESET /\ function = SBI_EXT_SYS_RESET_FUNC
        THEN HandlerSysReset(ctx)
        ELSE IF extension = SBI_EXT_DIOSIX
        THEN HandlerDiosix(ctx, function)
        ELSE HandlerCatchAll(ctx, extension, function)

(***************************************************************************)
(* irq.rs: trap dispatch.  The cause CSR is as wide as the ISA; it is held *)
(* as the record [top, low] of its top bit (mcause >> cause_shift) and the *)
(* bits below it (mcause & cause_mask).                                    *)
(***************************************************************************)
\* cpu::get_isa_width(): the width, or a panic on a target that is not riscv64
get_isa_width(target) ==
    IF target = "riscv64" THEN [panic |-> FALSE, width |-> 64]
    ELSE [panic |-> TRUE, width |-> 0]

\* cpu::previous_privilege()
previous_privilege(mstatus) ==
    IF MstatusMPP(mstatus) = 0 THEN "User"
    ELSE IF MstatusMPP(mstatus) = 1 THEN "Supervisor"
    ELSE "Machine"

\* the exception arms of the cause match in dispatch()
ExceptionCauses ==
    0 :> <<"Fatal", "InstructionAlignment">> @@
    1 :> <<"Fatal", "InstructionAccess">> @@
    2 :> <<"Fatal", "IllegalInstruction">> @@
    3 :> <<"Fatal", "Breakpoint">> @@
    4 :> <<"Fatal", "LoadAlignment">> @@
    5 :> <<"Fatal", "LoadAccess">> @@
    6 :> <<"Fatal", "StoreAlignment">> @@
    7 :> <<"Fatal", "StoreAccess">> @@
    8 :> <<"NonFatal", "UserEnvironmentCall">> @@
    9 :> <<"NonFatal", "SupervisorEnvironmentCall">> @@
    11 :> <<"NonFatal", "MachineEnvironmentCall">> @@
    12 :> <<"Fatal", "InstructionPageFault">> @@
    13 :> <<"Fatal", "LoadPageFault">> @@
    15 :> <<"Fatal", "StorePageFault">>

\* the interrupt arms of the cause match in dispatch()
InterruptCauses ==
    0 :> <<"NonFatal", "UserSWI">> @@
    1 :> <<"NonFatal", "SupervisorSWI">> @@
    3 :> <<"NonFatal", "MachineSWI">> @@
    4 :> <<"NonFatal", "UserTimer">> @@
    5 :> <<"NonFatal", "SupervisorTimer">> @@
    7 :> <<"NonFatal", "MachineTimer">> @@
    8 :> <<"NonFatal", "UserInterrupt">> @@
    9 :> <<"NonFatal", "SupervisorInterrupt">> @@
    11 :> <<"NonFatal", "MachineInterrupt">>

\* the cause match with every unlisted pair answered Fatal
CauseOfFatalDefault(cause_type, code) ==
    IF cause_type = "Exception" /\ code \in DOMAIN ExceptionCauses
    THEN ExceptionCauses[code]
    ELSE IF cause_type = "Interrupt" /\ code \in DOMAIN InterruptCauses
    THEN InterruptCauses[code]
    ELSE <<"Fatal", "Unknown">>

\* the cause match of dispatch(): (severity, cause) for (cause_type, code)
CauseOf(cause_type, code) ==
    IF cause_type = "Exception" /\ code \in DOMAIN ExceptionCauses
    THEN ExceptionCauses[code]
    ELSE IF cause_type = "Interrupt" /\ code \in DOMAIN InterruptCauses
    THEN InterruptCauses[code]
    ELSE <<"NonFatal", "Unknown">>

\* dispatch(context) on a core built for target whose CSRs read mcause, mstatus, mepc
dispatch(target, mcause, mstatus, mepc, ctx) ==
    LET isa == get_isa_width(target)
        cause_type == IF mcause.top = 0 THEN "Exception" ELSE "Interrupt"
        sc == CauseOf(cause_type, mcause.low)
    IN  IF isa.panic
        THEN [outcome |-> "panic"]
        ELSE [outcome |-> "Some",
              severity |-> sc[1],
              irq_type |-> cause_type,
              cause |-> sc[2],
              privilege_mode |-> previous_privilege(mstatus),
              pc |-> mepc,
              sp |-> ctx[2]]

\* the mip bit acknowledge() clears for a cause, or -1 where it returns
\* without touching mip
AckBit(cause) ==
    CASE cause = "UserSWI" -> 0
      [] cause = "SupervisorSWI" -> 1
      [] cause = "UserTimer" -> 4
      [] cause = "SupervisorTimer" -> 5
      [] cause = "UserInterrupt" -> 8
      [] cause = "SupervisorInterrupt" -> 9
      [] OTHER -> -1

\* irq::acknowledge(irq): the mip CSR after the call (clear_csr! is csrrc)
acknowledge(i, pending) ==
    LET bit == AckBit(i.cause)
    IN  IF bit < 0 THEN pending ELSE ClearBits(pending, Shl(1, bit))

(***************************************************************************)
(* instructions.rs: instruction emulation.  An instruction is a u32; it is *)
(* held as its two 16-bit halves [hi, lo] and the bit operations act on    *)
(* the halves.                                                             *)
(***************************************************************************)
Word32(hi, lo) == [hi |-> hi, lo |-> lo]

\* a & b on u32
And32(a, b) == Word32(BitAnd(a.hi, b.hi), BitAnd(a.lo, b.lo))

\* !a on u32
Not32(a) == Word32(Pow2(16) - 1 - a.hi, Pow2(16) - 1 - a.lo)

\* a >> n on u32, for n < 16
Shr32(a, n) == Word32(Shr(a.hi, n), Shr(a.lo, n) + Shl(a.hi % Pow2(n), 16 - n))

\* 0xc01 << 20 | 2 << 12 | 0x1c << 2 | 3
RDTIME_INST == Word32(Shl(3073, 20 - 16), Shl(2, 12) + Shl(28, 2) + 3)

\* !(0x1f << 7)
RDTIME_MASK == Not32(Word32(0, Shl(31, 7)))

\* 0xc81 << 20 | 2 << 12 | 0x1c << 2 | 3
RDTIMEH_INST == Word32(Shl(3201, 20 - 16), Shl(2, 12) + Shl(28, 2) + 3)

RDTIMEH_MASK == Not32(Word32(0, Shl(31, 7)))

\* a Timer: the CLINT it belongs to and the rate it counts at
Timer(frequency, clint_base) == [clint_base |-> clint_base, frequency |-> frequency]

\* timer::get_pinned_timer_now_exact(): the tick count of the pinned timer,
\* or None when no timer is pinned
get_pinned_timer_now_exact(pinned, now) == IF pinned.some THEN Some(now) ELSE None

\* increment_epc() adding the length of a compressed instruction
increment_epc_half(mepc) == mepc + 2

\* increment_epc(): the value it leaves in mepc
increment_epc(mepc) == mepc + 4

\* ((instruction & !RDTIME_MASK) >> 7) & RDTIME_MASK, as usize
EmulateRd(instruction) ==
    LET rd == And32(Shr32(And32(instruction, Not32(RDTIME_MASK)), 7), RDTIME_MASK)
    IN  rd.hi * Pow2(16) + rd.lo

\* the address of the faulting instruction without the PMP check on it
EmulateAddrUnchecked(priv_mode, p, satp, entries, mepc) ==
    IF priv_mode = "Hypervisor" THEN WalkSome(mepc, NoTrace)
    ELSE IF priv_mode = "Supervisor" THEN supervisor_addr_to_phys(p, satp, entries, mepc)
    ELSE WalkNone(NoTrace)

\* the first part of emulate(): the address of the faulting instruction,
\* translated for a supervisor and validated against the PMP; outcome "none"
\* is the return of CantAccess
EmulateAddr(priv_mode, p, satp, entries, mepc) ==
    LET addr == IF priv_mode = "Hypervisor" THEN WalkSome(mepc, NoTrace)
                ELSE IF priv_mode = "Supervisor"
                THEN supervisor_addr_to_phys(p, satp, entries, mepc)
                ELSE WalkNone(NoTrace)
    IN  IF addr.outcome = "some" /\ ~validate_pmp_phys_addr(p, addr.paddr).some
        THEN WalkNone(addr.trace)
        ELSE addr

\* what emulate() leaves and returns: the result, the frame, mepc, and the
\* addresses it read an instruction word from
Emulated(result, ctx, mepc, fetched) ==
    [result |-> result, context |-> ctx, mepc |-> mepc, fetched |-> fetched]

\* emulate(priv_mode, context), with instruction the word at the address of
\* the faulting instruction
emulate(target, priv_mode, p, satp, entries, instruction, pinned, now, mepc, ctx) ==
    LET addr == EmulateAddr(priv_mode, p, satp, entries, mepc)
        time_now == get_pinned_timer_now_exact(pinned, now)
        rd == EmulateRd(instruction)
    IN  IF addr.outcome = "panic" THEN Emulated("panic", ctx, mepc, <<>>)
        ELSE IF addr.outcome = "none" THEN Emulated("CantAccess", ctx, mepc, <<>>)
        ELSE IF And32(instruction, RDTIME_MASK) = RDTIME_INST
        THEN IF ~time_now.some
             THEN Emulated("CantEmulate", ctx, mepc, <<addr.paddr>>)
             ELSE Emulated("Success", [ctx EXCEPT ![rd] = time_now.val],
                           increment_epc(mepc), <<addr.paddr>>)
        ELSE IF target = "riscv32" /\ And32(instruction, RDTIMEH_MASK) = RDTIMEH_INST
        THEN IF ~time_now.some
             THEN Emulated("CantEmulate", ctx, mepc, <<addr.paddr>>)
             \* (time_now >> 32) as usize: 0 for every tick count below 2^32
             ELSE Emulated("Success", [ctx EXCEPT ![rd] = 0],
                           increment_epc(mepc), <<addr.paddr>>)
        ELSE Emulated("IllegalInstruction", ctx, mepc, <<addr.paddr>>)

(***************************************************************************)
(* timer.rs: the pinned timer.  PINNED_TIMER is a Mutex<Option<Timer>>;     *)
(* each function below holds the lock for its whole body, so each is one   *)
(* atomic step on the slot.                                                *)
(***************************************************************************)
\* Timer::pin(): the slot after the call; the assignment is unconditional
pin(pinned, timer) == Some(timer)

\* Timer::get_now()
get_now(timer, now) == Exact(now)

\* Timer::get_frequency()
get_frequency(timer) == timer.frequency

\* timer::get_pinned_timer_now()
get_pinned_timer_now(pinned, now) ==
    IF pinned.some THEN Some(get_now(pinned.val, now)) ELSE None

\* timer::get_pinned_timer_freq()
get_pinned_timer_freq(pinned) ==
    IF pinned.some THEN Some(get_frequency(pinned.val)) ELSE None

(***************************************************************************)
(* errata.rs                                                               *)
(***************************************************************************)
SIFIVE_FU540_C000_ROCK_3 == 0
SIFIVE_FU540_C000_CCACHE_1 == 1
SIFIVE_FU540_C000_I2C_1 == 2

\* errata::from_model(): (known, fixed) for a model string.  The test is
\* model.contains("hifive-unleashed-a00"); the model strings of the trees
\* below contain it only when they are equal to it.
from_model(model) ==
    LET known == IF model = "hifive-unleashed-a00"
                 THEN BitOr(BitOr(Shl(1, SIFIVE_FU540_C000_ROCK_3),
                                  Shl(1, SIFIVE_FU540_C000_CCACHE_1)),
                            Shl(1, SIFIVE_FU540_C000_I2C_1))
                 ELSE 0
        fixed == 0
    IN  <<known, fixed>>

(***************************************************************************)
(* devices.rs.  The device tree is the devicetree crate's; what this code  *)
(* asks of it is modelled by a record per node:                            *)
(*   a property is [kind, words, text] with kind "absent" (get_property    *)
(*   fails), "words" (as_multi_u32 / as_multi_u64 / as_u32 succeed) or     *)
(*   "text" (as_text succeeds); a conversion of the other kind fails;      *)
(*   cells is <<#address-cells, #size-cells>> of the node's parent.        *)
(* A Result is [ok, err, val]; a call that panics (an index past the end   *)
(* of a reg list) has err "panic".                                         *)
(***************************************************************************)
Absent == [kind |-> "absent", words |-> <<>>, text |-> ""]
WordsProp(w) == [kind |-> "words", words |-> w, text |-> ""]
TextProp(t) == [kind |-> "text", words |-> <<>>, text |-> t]

Ok(v) == [ok |-> TRUE, err |-> "", val |-> v]
Err(e) == [ok |-> FALSE, err |-> e, val |-> <<>>]

\* the error of DeviceTree::get_property() for a property that is not there,
\* and of a DeviceTreeProperty conversion applied to the wrong kind
GetPropertyErr == "NotFound"
ConversionErr == "CannotConvert"

\* physmem::RAMArea
RAMArea(base, size) == [base |-> base, size |-> size]

\* devices::get_ram_chunk() for one /memory@ node
get_ram_chunk(node) ==
    IF node.reg.kind = "absent" THEN Err(GetPropertyErr)
    ELSE IF node.cells \notin {<<1, 1>>, <<2, 2>>} THEN Err("WidthUnsupported")
    ELSE IF node.reg.kind # "words" THEN Err(ConversionErr)
    ELSE IF Len(node.reg.words) < 2 THEN Err("panic")
    ELSE Ok(RAMArea(node.reg.words[1], node.reg.words[2]))

\* devices::get_system_timer() for the /soc/clint@ node; tbf is the
\* /cpus timebase-frequency property
get_system_timer(tbf, node) ==
    IF tbf.kind = "absent" THEN Err(GetPropertyErr)
    ELSE IF tbf.kind # "words" THEN Err(ConversionErr)
    ELSE IF node.reg.kind = "absent" THEN Err(GetPropertyErr)
    ELSE IF node.cells[1] \notin {1, 2} THEN Err("WidthUnsupported")
    ELSE IF node.reg.kind # "words" THEN Err(ConversionErr)
    ELSE IF Len(node.reg.words) < 1 THEN Err("panic")
    ELSE Ok(Timer(tbf.words[1], node.reg.words[1]))

\* serial::SerialPort::new(): a port when the compatible string names a
\* 16550a and the driver accepts the MMIO area (node.uart: the result of
\* mmio_16550_uart::UART::new and of its size test)
SerialPort_new(base, size, compat, uart) ==
    IF compat = "ns16550a" /\ uart
    THEN Some([base |-> base, size |-> size, compat |-> compat])
    ELSE None

\* devices::create_debug_console() for a serial node
create_debug_console(node) ==
    IF node.reg.kind = "absent" THEN Err(GetPropertyErr)
    ELSE IF node.compatible.kind = "absent" THEN Err(GetPropertyErr)
    ELSE IF node.cells[1] \notin {1, 2} THEN Err("WidthUnsupported")
    ELSE IF node.reg.kind # "words" THEN Err(ConversionErr)
    ELSE IF Len(node.reg.words) < 2 THEN Err("panic")
    ELSE IF node.compatible.kind # "text" THEN Err(ConversionErr)
    ELSE LET sp == SerialPort_new(node.reg.words[1], node.reg.words[2],
                                  node.compatible.text, node.uart)
         IN  IF sp.some THEN Ok(sp.val) ELSE Err("DeviceFailure")

\* devices::setup_debug_console(): the node /chosen stdout-path names, else
\* the node of the first /aliases serial0..3 that is there; tree.stdout and
\* tree.serials hold the nodes the paths lead to
setup_debug_console(tree) ==
    IF tree.stdout # <<>> THEN create_debug_console(tree.stdout[1])
    ELSE IF tree.serials # <<>> THEN create_debug_console(tree.serials[1])
    ELSE Err("NotFound")

\* the nr_cpu_cores block of Devices::new(): each /cpus/cpu* node's reg list
\* adds len / #address-cells; a reg that is missing or not a list aborts
RECURSIVE CountCores(_, _)
CountCores(cpus, address_cells) ==
    IF cpus = <<>> THEN Ok(0)
    ELSE LET reg == Head(cpus)
             rest == CountCores(Tail(cpus), address_cells)
         IN  IF reg.kind = "absent" THEN Err(GetPropertyErr)
             ELSE IF reg.kind # "words" THEN Err(ConversionErr)
             ELSE IF address_cells = 0 THEN Err("panic")
             ELSE IF ~rest.ok THEN rest
             ELSE Ok((Len(reg.words) \div address_cells) + rest.val)

\* the system_ram block of Devices::new(): the chunks of the /memory@ nodes
\* whose get_ram_chunk() is Ok, in order; a node whose chunk is an Err is
\* passed over (if let Ok(chunk) = ...)
RECURSIVE SystemRam(_)
SystemRam(memory) ==
    IF memory = <<>> THEN <<>>
    ELSE LET chunk == get_ram_chunk(Head(memory))
         IN  IF chunk.ok THEN <<chunk.val>> \o SystemRam(Tail(memory))
             ELSE SystemRam(Tail(memory))

\* a /memory@ node whose get_ram_chunk() panics takes Devices::new() with it
RamPanics(memory) ==
    \E i \in 1..Len(memory) : get_ram_chunk(memory[i]).err = "panic"

\* Devices::new(): the result, and the pinned timer slot after the call.
\* The fields are built in the order of the struct literal: nr_cpu_cores,
\* debug_console, system_ram, scheduler_timer.
Devices_new(tree, pinned) ==
    LET unpinned(result) == [result |-> result, pinned |-> pinned, wrote |-> FALSE]
        cores == CountCores(tree.cpus, tree.cpu_cells)
        console == setup_debug_console(tree)
        t == get_system_timer(tree.tbf, tree.clint[1])
    IN  IF ~tree.blob THEN unpinned(Err("BadBlob"))
        ELSE IF tree.model.kind = "absent" THEN unpinned(Err(GetPropertyErr))
        ELSE IF tree.model.kind # "text" THEN unpinned(Err(ConversionErr))
        ELSE IF ~cores.ok THEN unpinned(cores)
        ELSE IF console.err = "panic" THEN unpinned(console)
        ELSE IF RamPanics(tree.memory) THEN unpinned(Err("panic"))
        ELSE IF tree.clint # <<>> /\ t.err = "panic" THEN unpinned(Err("panic"))
        ELSE LET timed == tree.clint # <<>> /\ t.ok
                 d == [nr_cpu_cores |-> cores.val,
                       debug_console |-> IF console.ok THEN Some(console.val) ELSE None,
                       system_ram |-> SystemRam(tree.memory),
                       scheduler_timer |-> IF timed THEN Some(t.val) ELSE None,
                       errata_known |-> from_model(tree.model.text)[1],
                       errata_fixed |-> from_model(tree.model.text)[2]]
             IN  [result |-> Ok(d),
                  pinned |-> IF timed THEN pin(pinned, t.val) ELSE pinned,
                  wrote |-> timed]

(***************************************************************************)
(* physmem.rs: the iterator over the physical RAM outside the footprint.   *)
(***************************************************************************)
\* a - b on usize.  When b > a the subtraction overflows: a build with
\* overflow checks panics, a build without them wraps.  A wrapped result
\* 2^64 + (a - b) is written as the negative number a - b.
UsizeSub(a, b, overflow_checks) ==
    IF a >= b THEN [panic |-> FALSE, val |-> a - b]
    ELSE IF overflow_checks THEN [panic |-> TRUE, val |-> 0]
    ELSE [panic |-> FALSE, val |-> a - b]

\* RAMAreaIter::next(): what it returns ("None", "Some" with the area, or
\* "panic") and the iterator after the call
RAMAreaIter_next(self) ==
    LET total_end == self.total_area.base + self.total_area.size
        kernel_end == self.kernel_area.base + self.kernel_area.size
        pos1 == IF self.pos < self.total_area.base THEN self.total_area.base ELSE self.pos
        pos2 == IF pos1 >= self.kernel_area.base /\ pos1 < kernel_end
                THEN kernel_end ELSE pos1
        rest == UsizeSub(total_end, pos2, self.overflow_checks)
        ret(kind, area, pos) ==
            [ret |-> kind, area |-> area, self |-> [self EXCEPT !.pos = pos]]
    IN  IF pos1 >= total_end THEN ret("None", RAMArea(0, 0), pos1)
        ELSE IF pos2 < self.kernel_area.base
        THEN ret("Some", RAMArea(pos2, self.kernel_area.base - pos2), kernel_end)
        ELSE IF pos2 >= kernel_end
        THEN IF rest.panic THEN ret("panic", RAMArea(0, 0), pos2)
             ELSE ret("Some", RAMArea(pos2, rest.val), total_end)
        ELSE ret("None", RAMArea(0, 0), pos2)

\* physmem::available_ram(): the iterator over a RAM area and a footprint
available_ram(all_phys_ram, phys_kernel_start, phys_kernel_end, overflow_checks) ==
    [pos |-> all_phys_ram.base,
     total_area |-> all_phys_ram,
     kernel_area |-> RAMArea(phys_kernel_start, phys_kernel_end - phys_kernel_start),
     overflow_checks |-> overflow_checks]

(***************************************************************************)
(* State.                                                                  *)
(***************************************************************************)
VARIABLES
    pmp,           \* this core's PMP CSRs: [cfg, addr]
    pmp_unflushed, \* a PMP CSR was written and no sfence.vma was issued since
    nprotect,      \* number of protect() calls made
    last_protect,  \* the latest protect() call: its arguments and return value
    regions,       \* per region ID, the arguments of the latest accepted protect()
    script,        \* the protect() calls boot has still to make before guests run
    walk,          \* the latest call of supervisor_addr_to_phys: its inputs and result
    features,      \* the misa feature bits of this core
    csr,           \* the live CSRs of this core
    context,       \* the register frame stacked at trap entry: IRQContext.registers
    fregs,         \* the live floating-point registers f0..f31
    cpu_state,     \* per vCPU, its SupervisorState block
    fp_state,      \* per vCPU, its SupervisorFPState block
    running,       \* the vCPU loaded on this core, or NoCpu
    at_save,       \* per vCPU, the live CSRs and frame when it was last saved
    last_cpu,      \* the latest save or load: what it was and what it found
    cpu_ops,       \* number of guest runs, saves, loads and frame changes so far
    tval,          \* the TimerValue in hand
    tfreq,         \* the frequency of the core's timer, in Hz
    tconv,         \* the latest unit conversion: the value converted and the result
    timer_target,  \* the tick count the timer compare register was last set to
    hwid,          \* the machine's mvendorid, marchid and mimpid CSRs
    sbi_call,      \* the latest SBI call: the register frame on entry to handler()
    sbi_action,    \* the Option<Action> the latest handler() call returned
    sbi_effects,   \* the instructions and timer calls the latest handler() call made
    target_arch,   \* the architecture the monitor was built for
    mcause,        \* the machine cause CSR: [top, low]
    irq,           \* what the latest dispatch() call returned
    mip,           \* the machine interrupt-pending CSR
    acked,         \* the latest acknowledge() call: the mip it found
    pinned_timer,  \* PINNED_TIMER: None, or the timer that was pinned
    clint_now,     \* the tick count the CLINT of this core reads
    devices,       \* the last Devices::new(): the tree it was given, its result
    pin_op,        \* the last call on the pinned timer: the slot before it, its return
    ram_iter,      \* a RAMAreaIter: total_area, kernel_area, pos
    ram_areas,     \* what the iterator returned so far, how it ended, and after that
    emu            \* the latest emulate() call: its inputs and what it returned

pmpvars == <<pmp, pmp_unflushed, nprotect, last_protect, regions>>

walkvars == <<script, walk>>

cpuvars ==
    <<features, csr, context, fregs, cpu_state, fp_state, running, at_save, last_cpu, cpu_ops>>

timervars == <<tval, tfreq, tconv, timer_target>>

sbivars == <<hwid, sbi_call, sbi_action, sbi_effects>>

irqvars == <<target_arch, mcause, irq, mip, acked>>

pinvars == <<pinned_timer, clint_now, devices, pin_op>>
ramvars == <<ram_iter, ram_areas>>

emuvars == <<emu>>

vars == <<pmpvars, walkvars, cpuvars, timervars, sbivars, irqvars, pinvars, ramvars, emuvars>>

\* the inputs protect() is called with
RegionIds ==
    (0 .. MaxRegion) \cup
    {PmpRegions, PHYS_PMP_MAX_REGIONS, PHYS_PMP_MAX_REGIONS + 1}

AddrChoices == {4 * a : a \in 0 .. MaxAddrWords}

NoCall == [called |-> FALSE]

NoRegion == [set |-> FALSE]

InitPMP ==
    /\ pmp = PmpReset
    /\ pmp_unflushed = FALSE
    /\ nprotect = 0
    /\ last_protect = NoCall
    /\ regions = [r \in 0 .. PHYS_PMP_MAX_REGIONS |-> NoRegion]

\* one call of protect(regionid, base, end, access); protect issues no sfence.vma
ProtectCall(regionid, base, end, access) ==
    LET r == protect(pmp, regionid, base, end, access)
    IN  /\ pmp' = r.pmp
        /\ pmp_unflushed' = (pmp_unflushed \/ r.ret)
        /\ nprotect' = nprotect + 1
        /\ last_protect' = [called |-> TRUE, regionid |-> regionid, base |-> base,
                            end |-> end, access |-> access, ret |-> r.ret, pre |-> pmp]
        /\ regions' = IF r.ret
                      THEN [regions EXCEPT ![regionid] =
                               [set |-> TRUE, base |-> base, end |-> end, access |-> access]]
                      ELSE regions

Protect ==
    /\ nprotect < MaxProtects
    /\ \E regionid \in RegionIds, base \in AddrChoices, end \in AddrChoices,
          access \in AccessPermissions :
           ProtectCall(regionid, base, end, access)

NoWalk == [done |-> FALSE]

\* no walk is made: the state of the walker's variables in a specification without it
IdleWalk ==
    /\ script = <<>>
    /\ walk = NoWalk

NoConv == [set |-> FALSE]

\* no timer value is converted: the state of the timer's variables in a
\* specification without them
IdleTimer ==
    /\ tval = Exact(0)
    /\ tfreq = 10 * MILLION
    /\ tconv = NoConv
    /\ timer_target = 0

NoSbiCall == [set |-> FALSE]

\* a machine whose ID CSRs read v, v + 1 and v + 2
MachineIds(v) == [mvendorid |-> v, marchid |-> v + 1, mimpid |-> v + 2]

\* no SBI call is made: the state of the handler's variables in a specification
\* without it
IdleSBI ==
    /\ hwid = MachineIds(0)
    /\ sbi_call = NoSbiCall
    /\ sbi_action = NoAction
    /\ sbi_effects = <<>>

NoDispatch == [outcome |-> "none"]

\* no trap is dispatched: the state of the dispatcher's variables in a
\* specification without it
NoAck == [done |-> FALSE]

IdleAck ==
    /\ mip = 0
    /\ acked = NoAck

IdleIRQ ==
    /\ target_arch = "riscv64"
    /\ mcause = [top |-> 0, low |-> 0]
    /\ irq = NoDispatch
    /\ IdleAck

\* no timer is pinned and no instruction is emulated: the state of the pinned
\* timer's and the emulator's variables in a specification without them
NoDevices == [done |-> FALSE]

NoPinOp == [op |-> "none"]

IdleDevices ==
    /\ devices = NoDevices
    /\ pin_op = NoPinOp

IdlePin ==
    /\ pinned_timer = None
    /\ clint_now = 0
    /\ IdleDevices

\* no iterator over physical RAM is in use
NoRamIter ==
    [total_area |-> RAMArea(0, 0), kernel_area |-> RAMArea(0, 0), pos |-> 0,
     overflow_checks |-> FALSE]

IdleRam ==
    /\ ram_iter = NoRamIter
    /\ ram_areas = [areas |-> <<>>, ended |-> "idle", again |-> "no"]

NoEmu == [done |-> FALSE]

IdleEmu == emu = NoEmu

(***************************************************************************)
(* The core multiplexed over vCPUs: guests run and trap, the monitor saves *)
(* and loads their state blocks from the trap context.                     *)
(***************************************************************************)
\* number of guest runs, saves, loads and frame changes explored in one behaviour
MaxCpuOps == 7

\* two vCPUs share the core
VCpus == {0, 1}

\* a guest leaves one of two register patterns behind when it traps
GuestTags == {1, 2}

NoCpu == -1

LiveCsrNames == StateCsrNames \cup {"fcsr"}

\* the position of a CSR in struct SupervisorState
CsrPos(c) == CHOOSE i \in 1 .. Len(StateCsrs) : StateCsrs[i] = c

\* the misa values a core may have: no FPU, F only, F and D
FeatureChoices == {0, CPUFEATURES_SP_FPU, CPUFEATURES_SP_FPU + CPUFEATURES_DP_FPU}

HasFpu(f) == BitAnd(f, CPUFEATURES_SP_FPU) = CPUFEATURES_SP_FPU

\* the FS values a guest can leave in machine status: FS is hardwired to off
\* without an FPU, and a supervisor can write any value to it with one
FsChoices(f) == IF HasFpu(f) THEN 0 .. MSTATUS_FS_MASK ELSE {MSTATUS_FS_OFF}

\* the live CSRs a trapping guest leaves: pattern t, FS field fs, fcsr value ft
GuestCsrs(t, fs, ft) ==
    [c \in LiveCsrNames |->
        CASE c = "mstatus" ->
                 MSTATUS_MPP_SUPERVISOR + Shl(fs, MSTATUS_FS_SHIFT) + 128 * (t % 2)
          [] c = "fcsr" -> ft
          [] OTHER -> 100 * t + CsrPos(c)]

\* the frame the entry stub stacks for a guest with register pattern t
GuestFrame(t) == [k \in ContextSlots |-> IF k = 0 THEN 0 ELSE 1000 * t + k]

GuestFRegs(t) == [i \in FRegs |-> 100 * t + i]

NoSave == [set |-> FALSE]

NoCpuOp == [op |-> "none"]

\* the state of a core on which no vCPU has run yet, with misa = f
BootCPU(f) ==
    /\ features = f
    /\ csr = [c \in LiveCsrNames |-> 0]
    /\ context = [k \in ContextSlots |-> 0]
    /\ fregs = [i \in FRegs |-> 0]
    /\ cpu_state = [v \in VCpus |->
                       init_supervisor_cpu_state(v, Cardinality(VCpus), 4096 * (v + 1), 64)]
    /\ fp_state = [v \in VCpus |-> init_supervisor_fp_state(f)]
    /\ running = NoCpu
    /\ at_save = [v \in VCpus |-> NoSave]
    /\ last_cpu = NoCpuOp
    /\ cpu_ops = 0

\* no vCPU is run: the state of the core's variables in a specification without them
IdleCPU == BootCPU(0)

InitCPU == \E f \in FeatureChoices : BootCPU(f)

\* the loaded guest runs, then traps: the live registers hold what it left
GuestRun ==
    /\ running # NoCpu
    /\ cpu_ops < MaxCpuOps
    /\ cpu_ops' = cpu_ops + 1
    /\ \E t \in GuestTags, fs \in FsChoices(features) :
           /\ csr' = GuestCsrs(t, fs, IF HasFpu(features) THEN t ELSE csr["fcsr"])
           /\ context' = GuestFrame(t)
           /\ fregs' = IF HasFpu(features) THEN GuestFRegs(t) ELSE fregs
    /\ last_cpu' = [op |-> "guest"]
    /\ UNCHANGED <<features, cpu_state, fp_state, running, at_save>>

\* the monitor changes a slot of the stacked frame (a call's return value, say)
ChangeFrame ==
    /\ running # NoCpu
    /\ cpu_ops < MaxCpuOps
    /\ cpu_ops' = cpu_ops + 1
    /\ context' = [context EXCEPT ![10] = 7]
    /\ last_cpu' = [op |-> "frame"]
    /\ UNCHANGED <<features, csr, fregs, cpu_state, fp_state, running, at_save>>

\* save_supervisor_cpu_state(&mut state of the running vCPU)
SaveCpu ==
    /\ running # NoCpu
    /\ cpu_ops < MaxCpuOps
    /\ cpu_ops' = cpu_ops + 1
    /\ cpu_state' = [cpu_state EXCEPT ![running] = save_supervisor_cpu_state(csr, context)]
    /\ at_save' = [at_save EXCEPT ![running] = [set |-> TRUE, csr |-> csr, frame |-> context]]
    /\ last_cpu' = [op |-> "save_cpu", v |-> running]
    /\ UNCHANGED <<features, csr, context, fregs, fp_state, running>>

\* save_supervisor_fp_state(&mut FP state of the running vCPU)
SaveFp ==
    /\ running # NoCpu
    /\ cpu_ops < MaxCpuOps
    /\ cpu_ops' = cpu_ops + 1
    /\ fp_state' = [fp_state EXCEPT ![running] =
                       save_supervisor_fp_state(csr, fregs, fp_state[running])]
    /\ last_cpu' = [op |-> "save_fp", v |-> running, pre |-> fp_state[running],
                    after |-> last_cpu.op]
    /\ UNCHANGED <<features, csr, context, fregs, cpu_state, running, at_save>>

\* load_supervisor_cpu_fp_state(state of vCPU v, FP state of vCPU v)
LoadCpuFp ==
    \E v \in VCpus :
        LET r == load_supervisor_cpu_fp_state(csr, context, fregs, cpu_state[v], fp_state[v])
        IN  /\ cpu_ops < MaxCpuOps
            /\ cpu_ops' = cpu_ops + 1
            /\ csr' = r.csr
            /\ context' = r.frame
            /\ fregs' = r.fregs
            /\ running' = v
            /\ last_cpu' = [op |-> "load", v |-> v, pre_frame |-> context,
                            pre_fregs |-> fregs, pre_fcsr |-> csr["fcsr"]]
            /\ UNCHANGED <<features, cpu_state, fp_state, at_save>>

NextCPU == (GuestRun \/ ChangeFrame \/ SaveCpu \/ SaveFp \/ LoadCpuFp)
               /\ UNCHANGED <<pmpvars, walkvars, timervars, sbivars, irqvars, pinvars, ramvars, emuvars>>

InitSpecCPU == InitPMP /\ IdleWalk /\ InitCPU /\ IdleTimer /\ IdleSBI /\ IdleIRQ /\ IdlePin /\ IdleRam /\ IdleEmu

SpecCPU == InitSpecCPU /\ [][NextCPU]_vars


NextPMP == Protect /\ UNCHANGED <<walkvars, cpuvars, timervars, sbivars, irqvars, pinvars, ramvars, emuvars>>

InitSpecPMP == InitPMP /\ IdleWalk /\ IdleCPU /\ IdleTimer /\ IdleSBI /\ IdleIRQ /\ IdlePin /\ IdleRam /\ IdleEmu

SpecPMP == InitSpecPMP /\ [][NextPMP]_vars

(***************************************************************************)
(* The walker, run on a core whose PMP boot has programmed with protect(). *)
(***************************************************************************)
ProtectArgs(regionid, base, end, access) ==
    [regionid |-> regionid, base |-> base, end |-> end, access |-> access]

\* the PMP set-ups the walker is run under: nothing programmed; one window
\* over the pages 0 and 1; two word-sized windows at the two ends of page 0
PmpScripts ==
    { <<>>,
      <<ProtectArgs(0, 0, 2 * (PAGE_SIZE \div 4), "ReadWrite"),
        ProtectArgs(1, 0, 0, "NoAccess")>>,
      <<ProtectArgs(0, 0, 1, "ReadWrite"),
        ProtectArgs(1, (PAGE_SIZE \div 4) - 1, PAGE_SIZE \div 4, "ReadWrite"),
        ProtectArgs(3, 0, 0, "NoAccess")>> }

\* a page-table entry with the given PPN and flag bits
Pte(ppn, flags) == Shl(ppn, SV39_PTE_PPN_BASE_SHIFT) + flags

\* the words a guest stores in the slots the walk reads
PteChoices ==
    { 0,
      Pte(0, PAGE_BITS_VALID),
      Pte(1, PAGE_BITS_VALID),
      Pte(2, PAGE_BITS_VALID),
      Pte(0, PAGE_BITS_VALID + PAGE_BITS_READ),
      Pte(1, PAGE_BITS_VALID + PAGE_BITS_READ),
      Pte(1, PAGE_BITS_VALID + PAGE_BITS_WRITE),
      Pte(513, PAGE_BITS_VALID + PAGE_BITS_EXEC) }

Levels == 0 .. SV39_VPN_COUNT - 1

SatpModes == {0, RV64_SATP_MODE_SV39, RV64_SATP_MODE_SV48}

RootPpns == 0 .. 2

VaddrChoices == {0, PAGE_SIZE + 4, Shl(1, 21), Shl(1, 30)}

InitWalk ==
    /\ InitPMP
    /\ script \in PmpScripts
    /\ walk = NoWalk
    /\ IdleCPU
    /\ IdleTimer
    /\ IdleSBI
    /\ IdleIRQ
    /\ IdlePin
    /\ IdleRam
    /\ IdleEmu

\* boot makes the next protect() call of its set-up
BootProtect ==
    /\ script # <<>>
    /\ ProtectCall(Head(script).regionid, Head(script).base, Head(script).end,
                   Head(script).access)
    /\ script' = Tail(script)
    /\ UNCHANGED <<walk, cpuvars, timervars, sbivars, irqvars, pinvars, ramvars, emuvars>>

\* a guest has trapped: supervisor_addr_to_phys(saddr) is called once
Walk ==
    /\ script = <<>>
    /\ ~walk.done
    /\ \E mode \in SatpModes, ppn \in RootPpns, saddr \in VaddrChoices,
          entries \in [Levels -> PteChoices] :
           LET satp == [mode |-> mode, ppn |-> ppn]
           IN  walk' = [done |-> TRUE, satp |-> satp, saddr |-> saddr,
                        entries |-> entries,
                        res |-> supervisor_addr_to_phys(pmp, satp, entries, saddr)]
    /\ UNCHANGED <<pmpvars, script, cpuvars, timervars, sbivars, irqvars, pinvars, ramvars, emuvars>>

NextWalk == BootProtect \/ Walk

SpecWalk == InitWalk /\ [][NextWalk]_vars

(***************************************************************************)
(* The trap machine: the core traps with some cause and dispatch() runs.   *)
(***************************************************************************)
\* the low bits of the cause CSR: every code near the table, and one with a
\* high bit set
CauseCodes == (0 .. 16) \cup {Pow2(30)}

TrapPcs == {0, 4096}

TrapSps == {0, 8192}

InitIRQ ==
    /\ InitPMP
    /\ IdleWalk
    /\ IdleCPU
    /\ IdleTimer
    /\ IdleSBI
    /\ IdlePin
    /\ IdleRam
    /\ IdleEmu
    /\ target_arch \in {"riscv64", "riscv32"}
    /\ mcause = [top |-> 0, low |-> 0]
    /\ irq = NoDispatch
    /\ IdleAck

\* the core traps from privilege mpp at pc with stack pointer sp, the hardware
\* sets the cause, and dispatch() runs on the stacked frame
Dispatch ==
    \E top \in {0, 1}, low \in CauseCodes, mpp \in 0 .. 3, pc \in TrapPcs, sp \in TrapSps :
        LET mstatus == Shl(mpp, 11)
            frame == [context EXCEPT ![2] = sp]
        IN  /\ mcause' = [top |-> top, low |-> low]
            /\ csr' = [csr EXCEPT !["mstatus"] = mstatus, !["mepc"] = pc]
            /\ context' = frame
            /\ irq' = dispatch(target_arch, mcause', mstatus, pc, frame)
            /\ UNCHANGED <<target_arch, mip, acked, pmpvars, walkvars, timervars, sbivars,
                           pinvars, ramvars, emuvars, features,
                           fregs, cpu_state, fp_state, running, at_save, last_cpu, cpu_ops>>

NextIRQ == Dispatch

SpecIRQ == InitIRQ /\ [][NextIRQ]_vars

(***************************************************************************)
(* The end of a trap: dispatch() has described the trap and the hypervisor *)
(* hands the description to acknowledge().                                 *)
(***************************************************************************)
\* what mip holds when acknowledge() runs: nothing pending, every software,
\* timer and external bit pending, and the machine-level bits alone
MipChoices == {0, 3003, 2184}

InitAck ==
    /\ InitPMP
    /\ IdleWalk
    /\ IdleCPU
    /\ IdleTimer
    /\ IdleSBI
    /\ IdlePin
    /\ IdleRam
    /\ IdleEmu
    /\ target_arch = "riscv64"
    /\ mcause \in [top : {0, 1}, low : CauseCodes]
    /\ \E mpp \in 0 .. 3 : irq = dispatch(target_arch, mcause, Shl(mpp, 11), 0, context)
    /\ mip \in MipChoices
    /\ acked = NoAck

Acknowledge ==
    /\ ~acked.done
    /\ mip' = acknowledge(irq, mip)
    /\ acked' = [done |-> TRUE, pre |-> mip]
    /\ UNCHANGED <<target_arch, mcause, irq>>

NextAck == Acknowledge
               /\ UNCHANGED <<pmpvars, walkvars, cpuvars, timervars, sbivars, pinvars, ramvars,
                              emuvars>>

SpecAck == InitAck /\ [][NextAck]_vars

(***************************************************************************)
(* The emulator machine: boot programs the PMP, a guest or the monitor     *)
(* traps on an instruction the core does not have, and emulate() runs.     *)
(***************************************************************************)
\* csrrs rd, time, x0
RdTime(rd) == Word32(RDTIME_INST.hi, RDTIME_INST.lo + Shl(rd, 7))

\* wfi: 0x10500073
Wfi == Word32(Shl(261, 4), 115)

\* the words at the faulting address: read-time into x5, x0 and x31, the
\* high-half read-time, a csrrs of time with rs1 = x1, wfi, and zero
InstChoices ==
    { RdTime(5), RdTime(0), RdTime(31), Wfi,
      Word32(RDTIMEH_INST.hi, RDTIMEH_INST.lo + Shl(5, 7)),
      Word32(RDTIME_INST.hi, RDTIME_INST.lo + Shl(5, 7) + Shl(1, 15)),
      Word32(0, 0) }

\* the page tables of the trapping guest, by level: nothing mapped; a
\* readable superpage at the root; three levels down to an executable page
\* in page 1; a root that points at a table in page 2; three levels down to
\* an executable page in page 513
EmuTables ==
    { [l \in Levels |-> 0],
      [l \in Levels |-> IF l = 2 THEN Pte(1, PAGE_BITS_VALID + PAGE_BITS_READ) ELSE 0],
      [l \in Levels |-> IF l = 2 THEN Pte(1, PAGE_BITS_VALID)
                        ELSE IF l = 1 THEN Pte(0, PAGE_BITS_VALID)
                        ELSE Pte(1, PAGE_BITS_VALID + PAGE_BITS_EXEC)],
      [l \in Levels |-> IF l = 2 THEN Pte(2, PAGE_BITS_VALID) ELSE 0],
      [l \in Levels |-> IF l = 2 THEN Pte(1, PAGE_BITS_VALID)
                        ELSE IF l = 1 THEN Pte(0, PAGE_BITS_VALID)
                        ELSE Pte(513, PAGE_BITS_VALID + PAGE_BITS_EXEC)] }

PrivChoices == {"Hypervisor", "Supervisor", "User"}

EmuPcs == {0, PAGE_SIZE + 4, Shl(1, 30)}

PinnedChoices == {None, Some(Timer(10 * MILLION, Shl(2, 24)))}

NowChoices == {5, 77}

InitEmu ==
    /\ InitPMP
    /\ script \in PmpScripts
    /\ walk = NoWalk
    /\ IdleCPU
    /\ IdleTimer
    /\ IdleSBI
    /\ target_arch \in {"riscv64", "riscv32"}
    /\ mcause = [top |-> 0, low |-> 0]
    /\ irq = NoDispatch
    /\ IdleAck
    /\ pinned_timer \in PinnedChoices
    /\ clint_now \in NowChoices
    /\ IdleDevices
    /\ IdleRam
    /\ emu = NoEmu

\* boot makes the next protect() call of its set-up
EmuBootProtect == BootProtect

\* the core traps at pc with the guest's registers stacked and emulate() is
\* called once
Emulate ==
    /\ script = <<>>
    /\ ~emu.done
    /\ \E priv_mode \in PrivChoices, mode \in {0, RV64_SATP_MODE_SV39},
          entries \in EmuTables, pc \in EmuPcs, instruction \in InstChoices :
           LET satp == [mode |-> mode, ppn |-> 0]
               frame == GuestFrame(1)
               e == emulate(target_arch, priv_mode, pmp, satp, entries, instruction,
                            pinned_timer, clint_now, pc, frame)
           IN  /\ emu' = [done |-> TRUE, priv_mode |-> priv_mode, satp |-> satp,
                          entries |-> entries, instruction |-> instruction,
                          mepc |-> pc, frame |-> frame, result |-> e.result,
                          fetched |-> e.fetched]
               /\ context' = e.context
               /\ csr' = [csr EXCEPT !["mepc"] = e.mepc]
    /\ UNCHANGED <<pmpvars, walkvars, timervars, sbivars, irqvars, pinvars, ramvars, features,
                   fregs, cpu_state, fp_state, running, at_save, last_cpu, cpu_ops>>

NextEmu == EmuBootProtect \/ Emulate

SpecEmu == InitEmu /\ [][NextEmu]_vars

(***************************************************************************)
(* Boot: the cores build Devices from device trees, pin timers and read    *)
(* the pinned timer, in any order.                                         *)
(***************************************************************************)
Cores == {0, 1}

\* serial nodes: a 16550a, and a UART there is no driver for
Ns16550a ==
    [cells |-> <<2, 2>>, reg |-> WordsProp(<<Shl(1, 28), 256>>),
     compatible |-> TextProp("ns16550a"), uart |-> TRUE]
SifiveUart ==
    [cells |-> <<2, 2>>, reg |-> WordsProp(<<Shl(1, 28) + Shl(1, 16), 4096>>),
     compatible |-> TextProp("sifive,uart0"), uart |-> FALSE]

\* the console part of a tree: no console named, a 16550a chosen by
\* /chosen stdout-path, an unsupported UART found by alias
ConsoleChoices ==
    { [stdout |-> <<>>, serials |-> <<>>],
      [stdout |-> <<Ns16550a>>, serials |-> <<SifiveUart>>],
      [stdout |-> <<>>, serials |-> <<SifiveUart>>] }

\* /memory@ nodes: two well-formed ones, one without reg, one under a parent
\* with #address-cells = 2 and #size-cells = 1, one whose reg is a string
MemLow == [cells |-> <<2, 2>>, reg |-> WordsProp(<<Shl(1, 29), Shl(1, 27)>>)]
MemHigh == [cells |-> <<1, 1>>, reg |-> WordsProp(<<Shl(1, 30), Shl(1, 26)>>)]
MemNoReg == [cells |-> <<2, 2>>, reg |-> Absent]
MemOddCells == [cells |-> <<2, 1>>, reg |-> WordsProp(<<Shl(1, 30), Shl(1, 26)>>)]
MemText == [cells |-> <<2, 2>>, reg |-> TextProp("ram")]

MemoryChoices ==
    { <<MemLow>>, <<MemNoReg>>, <<MemLow, MemOddCells>>, <<MemText, MemHigh>> }

\* the CLINT and the timebase frequency
Clint == [cells |-> <<2, 2>>, reg |-> WordsProp(<<Shl(1, 25), Shl(1, 16)>>)]

ClintChoices ==
    { [tbf |-> WordsProp(<<10 * MILLION>>), clint |-> <<>>],
      [tbf |-> WordsProp(<<10 * MILLION>>), clint |-> <<Clint>>],
      [tbf |-> WordsProp(<<MILLION>>), clint |-> <<Clint>>],
      [tbf |-> Absent, clint |-> <<Clint>>] }

\* the /cpus part: two cores of two and one harts, and a core without reg
CpuChoices ==
    { [cpu_cells |-> 1, cpus |-> <<WordsProp(<<0, 1>>), WordsProp(<<2>>)>>],
      [cpu_cells |-> 2, cpus |-> <<WordsProp(<<0, 0, 0, 1>>), Absent>>] }

ModelChoices == { Absent, TextProp("hifive-unleashed-a00"), TextProp("riscv-virtio,qemu") }

Tree(blob, model, cpu, console, memory, clint) ==
    [blob |-> blob, model |-> model, cpu_cells |-> cpu.cpu_cells, cpus |-> cpu.cpus,
     stdout |-> console.stdout, serials |-> console.serials, memory |-> memory,
     tbf |-> clint.tbf, clint |-> clint.clint]

HartsCounted == CHOOSE c \in CpuChoices : c.cpu_cells = 1

\* the blobs the firmware may hand over: one that does not parse; the trees
\* of a HiFive Unleashed with every console, memory and CLINT part above;
\* and trees with the other models and /cpus parts
TreeChoices ==
    { Tree(FALSE, Absent, HartsCounted, [stdout |-> <<>>, serials |-> <<>>], <<>>,
           [tbf |-> Absent, clint |-> <<>>]) }
    \cup { Tree(TRUE, TextProp("hifive-unleashed-a00"), HartsCounted, console, memory, clint) :
             console \in ConsoleChoices, memory \in MemoryChoices, clint \in ClintChoices }
    \cup { Tree(TRUE, model, cpu, [stdout |-> <<Ns16550a>>, serials |-> <<>>], <<MemLow>>,
                [tbf |-> WordsProp(<<10 * MILLION>>), clint |-> <<Clint>>]) :
             model \in ModelChoices, cpu \in CpuChoices }

\* the timers boot code may pin on its own
TimerChoices == { Timer(10 * MILLION, Shl(1, 25)), Timer(THOUSAND, Shl(1, 26)) }

InitDev ==
    /\ InitPMP
    /\ IdleWalk
    /\ IdleCPU
    /\ IdleTimer
    /\ IdleSBI
    /\ IdleIRQ
    /\ pinned_timer = None
    /\ clint_now \in NowChoices
    /\ IdleDevices
    /\ IdleRam
    /\ IdleEmu

\* a core calls Devices::new(tree)
DevicesNew ==
    \E core \in Cores, tree \in TreeChoices :
        LET r == Devices_new(tree, pinned_timer)
        IN  /\ devices' = [done |-> TRUE, tree |-> tree, result |-> r.result]
            /\ pinned_timer' = r.pinned
            /\ pin_op' = [op |-> "new", core |-> core, pre |-> pinned_timer,
                          wrote |-> r.wrote, ret |-> None]
            /\ UNCHANGED clint_now

\* a core calls timer.pin()
Pin ==
    \E core \in Cores, timer \in TimerChoices :
        /\ pinned_timer' = pin(pinned_timer, timer)
        /\ pin_op' = [op |-> "pin", core |-> core, pre |-> pinned_timer,
                      wrote |-> TRUE, ret |-> None]
        /\ UNCHANGED <<clint_now, devices>>

\* a core calls get_pinned_timer_now()
GetPinnedTimerNow ==
    \E core \in Cores :
        /\ pin_op' = [op |-> "now", core |-> core, pre |-> pinned_timer, wrote |-> FALSE,
                      ret |-> LET v == get_pinned_timer_now(pinned_timer, clint_now)
                              IN  IF v.some THEN Some(v.val.t) ELSE None]
        /\ UNCHANGED <<pinned_timer, clint_now, devices>>

\* a core calls get_pinned_timer_freq()
GetPinnedTimerFreq ==
    \E core \in Cores :
        /\ pin_op' = [op |-> "freq", core |-> core, pre |-> pinned_timer, wrote |-> FALSE,
                      ret |-> get_pinned_timer_freq(pinned_timer)]
        /\ UNCHANGED <<pinned_timer, clint_now, devices>>

NextDev == (DevicesNew \/ Pin \/ GetPinnedTimerNow \/ GetPinnedTimerFreq)
               /\ UNCHANGED <<pmpvars, walkvars, cpuvars, timervars, sbivars, irqvars, ramvars,
                              emuvars>>

SpecDev == InitDev /\ [][NextDev]_vars

(***************************************************************************)
(* The hypervisor runs through available_ram() until it returns None.      *)
(***************************************************************************)
\* the RAM areas and the footprints (start, end) the iterator is built over:
\* footprints below, inside, across either end of and above the RAM area
TotalChoices == { RAMArea(8, 8), RAMArea(8, 0), RAMArea(0, 12) }
KernelStarts == {0, 4, 8, 10, 12, 16, 20}
KernelLengths == {0, 2, 4, 6, 8, 12}

InitRam ==
    /\ InitPMP
    /\ IdleWalk
    /\ IdleCPU
    /\ IdleTimer
    /\ IdleSBI
    /\ IdleIRQ
    /\ IdlePin
    /\ IdleEmu
    /\ \E total \in TotalChoices, start \in KernelStarts, len \in KernelLengths,
          checks \in BOOLEAN :
          ram_iter = available_ram(total, start, start + len, checks)
    /\ ram_areas = [areas |-> <<>>, ended |-> "no", again |-> "no"]

\* next() is called on the iterator: by the for loop until it returns None,
\* and by a caller that holds the iterator after that
NextArea ==
    LET r == RAMAreaIter_next(ram_iter)
    IN  /\ ram_areas.ended \in {"no", "None"}
        /\ ram_iter' = r.self
        /\ ram_areas' =
              IF ram_areas.ended = "None"
              THEN [ram_areas EXCEPT !.again = r.ret]
              ELSE IF r.ret = "Some"
              THEN [ram_areas EXCEPT !.areas = Append(@, r.area)]
              ELSE [ram_areas EXCEPT !.ended = r.ret]

NextRam == NextArea
               /\ UNCHANGED <<pmpvars, walkvars, cpuvars, timervars, sbivars, irqvars, pinvars,
                              emuvars>>

SpecRam == InitRam /\ [][NextRam]_vars

(***************************************************************************)
(* The timer machine: a timer value is re-expressed in other units and     *)
(* programmed as the next timer target.                                    *)
(***************************************************************************)
TimerCounts == {0, 1, 2}

TimerValues ==
    UNION {{Nanoseconds(t), Microseconds(t), Milliseconds(t), Seconds(t), Exact(t)} :
              t \in TimerCounts}

FreqChoices == {1, THOUSAND, THOUSAND + 500, MILLION, 10 * MILLION, BILLION}

InitTimer ==
    /\ InitPMP
    /\ IdleWalk
    /\ IdleCPU
    /\ IdleSBI
    /\ IdleIRQ
    /\ IdlePin
    /\ IdleRam
    /\ IdleEmu
    /\ tval \in TimerValues
    /\ tfreq \in FreqChoices
    /\ tconv = NoConv
    /\ timer_target = 0

\* the value in hand is replaced by its conversion to
Convert(to) ==
    /\ tconv' = [set |-> TRUE, from |-> tval, to |-> to]
    /\ tval' = to
    /\ UNCHANGED <<tfreq, timer_target>>

ToNanoseconds == Convert(to_nanoseconds(tval, tfreq))

ToMicroseconds == Convert(to_microseconds(tval, tfreq))

ToMilliseconds == Convert(to_milliseconds(tval, tfreq))

ToSeconds == Convert(to_seconds(tval, tfreq))

\* Timer::next_at(target): the compare register is set to target.to_exact(frequency)
NextAt ==
    /\ timer_target' = to_exact(tval, tfreq)
    /\ UNCHANGED <<tval, tfreq, tconv>>

NextTimer == (ToNanoseconds \/ ToMicroseconds \/ ToMilliseconds \/ ToSeconds \/ NextAt)
                 /\ UNCHANGED <<pmpvars, walkvars, cpuvars, sbivars, irqvars, pinvars, ramvars, emuvars>>

SpecTimer == InitTimer /\ [][NextTimer]_vars

(***************************************************************************)
(* The SBI machine: a guest makes an environment call with registers of    *)
(* its choosing and the handler runs on the stacked frame.                 *)
(***************************************************************************)
\* extension IDs a guest may put in a7: every one the handler names, and two
\* it does not
ExtChoices ==
    { SBI_LEGACY_TIMER_SET, SBI_EXT_CONSOLE_PUTCHAR, SBI_EXT_CONSOLE_GETCHAR, 3,
      SBI_LEGACY_REMOTE_FENCE_I, SBI_LEGACY_SFENCE_VMA, SBI_EXT_SHUTDOWN, 9,
      SBI_EXT_BASE, SBI_EXT_TIMER, SBI_EXT_RFENCE, SBI_EXT_SYS_RESET, SBI_EXT_DIOSIX }

FuncChoices == 0 .. 7

\* values of a0: for the probe call every extension ID, otherwise a few
\* small numbers and two character codes, one wider than a byte
ArgChoices(e, f) ==
    IF e = SBI_EXT_BASE /\ f = SBI_EXT_BASE_PROBE_EXTENSION
    THEN ExtChoices
    ELSE {0, 1, 2, 3, 65, 321}

CapsuleChoices(e) == IF e = SBI_EXT_DIOSIX THEN {0, 7} ELSE {7}

InitSBI ==
    /\ InitPMP
    /\ IdleWalk
    /\ IdleCPU
    /\ IdleTimer
    /\ IdleIRQ
    /\ IdlePin
    /\ IdleRam
    /\ IdleEmu
    /\ hwid \in {MachineIds(0), MachineIds(20)}
    /\ sbi_call = NoSbiCall
    /\ sbi_action = NoAction
    /\ sbi_effects = <<>>

\* the frame the guest traps with: a7, a6, a0 and a1 as the guest set them
EcallFrame(frame, e, f, a0, a1) ==
    [frame EXCEPT ![REG_A7] = e, ![REG_A6] = f, ![REG_A0] = a0, ![REG_A1] = a1]

\* what the guest left in a2, a register no call of the handler reads
SpareChoices == {9}

\* a guest makes an environment call and handler() runs on its frame
Syscall ==
    \E e \in ExtChoices, f \in FuncChoices :
        \E a0 \in ArgChoices(e, f), a1 \in CapsuleChoices(e), a2 \in SpareChoices :
            LET entry == [EcallFrame(context, e, f, a0, a1) EXCEPT ![REG_A2] = a2]
                h == handler(entry, hwid)
            IN  /\ sbi_call' = [set |-> TRUE, frame |-> entry]
                /\ context' = h.context
                /\ sbi_action' = h.action
                /\ sbi_effects' = h.effects
                /\ pmp_unflushed' =
                       IF \E i \in 1 .. Len(h.effects) : h.effects[i] = "sfence.vma"
                       THEN FALSE ELSE pmp_unflushed
                /\ UNCHANGED <<pmp, nprotect, last_protect, regions, walkvars, timervars, irqvars,
                               pinvars, ramvars, emuvars,
                               hwid, features, csr, fregs, cpu_state, fp_state, running,
                               at_save, last_cpu, cpu_ops>>

NextSBI == Syscall

SpecSBI == InitSBI /\ [][NextSBI]_vars

(***************************************************************************)
(* Claims about protect().                                                 *)
(***************************************************************************)
\* the byte addresses a claim probes the validator with
ProbeAddrs == 0 .. (4 * MaxAddrWords + 4)

\* region r < 8 was programmed by an accepted protect(r, base, end, _) with base <= end
RegionProgrammed(r) == regions[r].set /\ regions[r].base <= regions[r].end

\* C1: after protect(region_id, base, end, access) with region_id < 8 and
\* base <= end, validate_phys_addr(x) = Some(x) for every base <= x < end and
\* None for every x outside all programmed regions.
C1_ProtectThenValidate ==
    \A x \in ProbeAddrs :
        /\ (\E r \in 0 .. PmpRegions - 1 :
               RegionProgrammed(r) /\ regions[r].base <= x /\ x < regions[r].end)
           => validate_pmp_phys_addr(pmp, x) = Some(x)
        /\ (\A r \in 0 .. PmpRegions - 1 :
               RegionProgrammed(r) => ~(regions[r].base <= x /\ x < regions[r].end))
           => validate_pmp_phys_addr(pmp, x) = None

\* C2: after an accepted protect(r, base, end, access) the config byte of entry
\* 2r carries no flags and the config byte of entry 2r + 1 is the access flags
\* ORed with the top-of-range bit.
C2_RegionEntryPair ==
    (last_protect.called /\ last_protect.ret /\ last_protect.regionid < PmpRegions)
    => LET r == last_protect.regionid
       IN  /\ PmpEntryCfg(pmp, 2 * r) = 0
           /\ PmpEntryCfg(pmp, 2 * r + 1) =
                  BitOr(AccessFlags(last_protect.access), PHYS_PMP_TOR)

\* C3: every programmed region's address registers hold base >> 2 and end >> 2,
\* and the stored base is <= the stored end.
C3_StoredShiftedAndOrdered ==
    \A r \in 0 .. PmpRegions - 1 :
        regions[r].set
        => /\ pmp.addr[2 * r] = Shr(regions[r].base, 2)
           /\ pmp.addr[2 * r + 1] = Shr(regions[r].end, 2)
           /\ pmp.addr[2 * r] <= pmp.addr[2 * r + 1]

\* C4: every protect call that reconfigures the PMP is followed by a full TLB
\* flush: when protect has returned, no PMP write is left unflushed.
C4_ProtectFlushes ==
    (last_protect.called /\ last_protect.ret) => ~pmp_unflushed

(***************************************************************************)
(* Claims about the page-table walker.                                     *)
(***************************************************************************)
\* every byte of the table page loaded from table_addr passes the validator
PageValidated(table_addr) ==
    \A b \in table_addr .. table_addr + PAGE_SIZE - 1 :
        validate_pmp_phys_addr(pmp, b).some

\* C5: every byte the Sv39 walker loads lies inside a region the PMP validator
\* accepts, at every level of the walk.
C5_WalkerLoadsValidated ==
    walk.done
    => \A i \in 1 .. Len(walk.res.trace.loads) : PageValidated(walk.res.trace.loads[i])

\* C6: supervisor_addr_to_phys returns Some or None and never panics: the entry
\* index computed at every level is below the 512 entries of the table.
C6_WalkerNeverPanics ==
    walk.done
    => /\ walk.res.outcome \in {"some", "none"}
       /\ \A i \in 1 .. Len(walk.res.trace.indexes) :
              walk.res.trace.indexes[i] < SV39_TABLE_ENTRIES

C8_FpSaveNoOpUnlessDirty ==
    (last_cpu.op = "save_fp" /\ MstatusFS(csr["mstatus"]) # MSTATUS_FS_DIRTY)
    => fp_state[last_cpu.v] = last_cpu.pre

\* the FP save runs with FS clean on a core with an FPU whose live fcsr and
\* registers differ from the block's
C8_Witness ==
    /\ last_cpu.op = "save_fp"
    /\ MstatusFS(csr["mstatus"]) = MSTATUS_FS_CLEAN
    /\ fp_state[last_cpu.v].registers.kind # "None"
    /\ csr["fcsr"] # fp_state[last_cpu.v].fcsr
    /\ fregs # fp_state[last_cpu.v].registers.regs

\* C24: when save_supervisor_fp_state runs with FS dirty on a state block
\* that has FP registers, the block afterwards holds the live f0..f31 and
\* the live fcsr.
C24_FpSaveStoresRegisters ==
    (/\ last_cpu.op = "save_fp"
     /\ MstatusFS(csr["mstatus"]) = MSTATUS_FS_DIRTY
     /\ last_cpu.pre.registers.kind # "None")
    => /\ fp_state[last_cpu.v].registers.regs = fregs
       /\ fp_state[last_cpu.v].fcsr = csr["fcsr"]

\* C25: load_supervisor_cpu_fp_state leaves the FS field clean, and every
\* other bit of machine status as the state block had it, when the FS field
\* it finds is not off; when it is off, machine status is the block's and
\* the FP registers and fcsr are not loaded.  A save_supervisor_fp_state
\* that follows the load directly leaves the FP state block as it was.
C25_LoadLeavesFsClean ==
    /\ last_cpu.op = "load" =>
          LET loaded == cpu_state[last_cpu.v].csr["mstatus"]
          IN  IF MstatusFS(loaded) # MSTATUS_FS_OFF
              THEN /\ MstatusFS(csr["mstatus"]) = MSTATUS_FS_CLEAN
                   /\ ClearBits(csr["mstatus"], Shl(MSTATUS_FS_MASK, MSTATUS_FS_SHIFT))
                         = ClearBits(loaded, Shl(MSTATUS_FS_MASK, MSTATUS_FS_SHIFT))
              ELSE /\ csr["mstatus"] = loaded
                   /\ fregs = last_cpu.pre_fregs
                   /\ csr["fcsr"] = last_cpu.pre_fcsr
    /\ (last_cpu.op = "save_fp" /\ last_cpu.after = "load") =>
          fp_state[last_cpu.v] = last_cpu.pre

\* a block saved with FS dirty is loaded on a core with an FPU, over FP
\* registers another guest left: FS comes out clean
C25_Witness ==
    /\ last_cpu.op = "load"
    /\ MstatusFS(cpu_state[last_cpu.v].csr["mstatus"]) = MSTATUS_FS_DIRTY
    /\ MstatusFS(csr["mstatus"]) = MSTATUS_FS_CLEAN
    /\ fp_state[last_cpu.v].registers.kind # "None"
    /\ last_cpu.pre_fcsr # csr["fcsr"]

(***************************************************************************)
(* Claims about timer values.                                              *)
(***************************************************************************)
\* the two tick counts differ by no more than one second of ticks, the most
\* that truncating a quantity to any of the units can lose
WithinTruncation(a, b, freq) == a - b <= freq /\ b - a <= freq

\* C9: for every freq > 0 and every timer value v, v re-expressed in another
\* unit and then turned into ticks gives the tick count of v.to_exact(freq),
\* up to integer truncation.
C9_ConversionsAgree ==
    tconv.set
    => WithinTruncation(to_exact(tconv.from, tfreq), to_exact(tconv.to, tfreq), tfreq)

(***************************************************************************)
(* Claims about the SBI handler.                                           *)
(***************************************************************************)
\* the handler implements extension e: some call with a7 = e is dispatched
\* rather than answered NOT_SUPPORTED
Implemented(e) ==
    \E f \in FuncChoices : \E a0 \in ArgChoices(e, f), a1 \in CapsuleChoices(e) :
        LET h == handler(EcallFrame([k \in ContextSlots |-> 0], e, f, a0, a1), hwid)
        IN  ~(h.action.kind = "Unknown" /\ h.context[REG_A0] = SBI_ERR_NOT_SUPPORTED)

\* C10: the probe call with a0 = e returns a0 = 0 and a1 = e for every
\* extension the handler implements, and a1 = 0 for every other e.
C10_ProbeReportsImplemented ==
    (/\ sbi_call.set
     /\ sbi_call.frame[REG_A7] = SBI_EXT_BASE
     /\ sbi_call.frame[REG_A6] = SBI_EXT_BASE_PROBE_EXTENSION)
    => /\ context[REG_A0] = SBI_SUCCESS
       /\ context[REG_A1] = IF Implemented(sbi_call.frame[REG_A0])
                            THEN sbi_call.frame[REG_A0]
                            ELSE 0

(***************************************************************************)
(* Claims about trap dispatch.                                             *)
(***************************************************************************)
\* the (type, code) pairs of the fixed cause table
InCauseTable(m) ==
    \/ m.top = 0 /\ m.low \in {0, 1, 2, 3, 4, 5, 6, 7, 8, 9, 11, 12, 13, 15}
    \/ m.top = 1 /\ m.low \in {0, 1, 3, 4, 5, 7, 8, 9, 11}

\* C11: for every value of a 64-bit cause CSR dispatch returns a trap record,
\* and every (type, code) pair outside the cause table yields cause Unknown
\* with severity NonFatal.
C11_DispatchTotal ==
    (irq # NoDispatch /\ target_arch = "riscv64")
    => /\ irq.outcome = "Some"
       /\ ~InCauseTable(mcause) => (irq.cause = "Unknown" /\ irq.severity = "NonFatal")
       /\ InCauseTable(mcause) => irq.cause # "Unknown"

\* dispatch has run on an interrupt whose code has a high bit set and is
\* outside the table
C11_Witness ==
    /\ irq # NoDispatch
    /\ target_arch = "riscv64"
    /\ mcause.low = Pow2(30)
    /\ mcause.top = 1
    /\ irq.cause = "Unknown"

\* C12: alignment and access faults and illegal instructions are Fatal;
\* environment calls, page faults and every interrupt are NonFatal.
C12_SeverityClasses ==
    (irq # NoDispatch /\ irq.outcome = "Some")
    => /\ (mcause.top = 0 /\ mcause.low \in {0, 1, 2, 4, 5, 6, 7}) => irq.severity = "Fatal"
       /\ (mcause.top = 0 /\ mcause.low \in {8, 9, 11, 12, 13, 15})
              => irq.severity = "NonFatal"
       /\ mcause.top = 1 => irq.severity = "NonFatal"

\* the latest SBI call is a timer-set call: the timer extension with function
\* 0, or legacy extension 0
IsTimerSet(frame) ==
    \/ frame[REG_A7] = SBI_LEGACY_TIMER_SET
    \/ (frame[REG_A7] = SBI_EXT_TIMER /\ frame[REG_A6] = SBI_EXT_TIMER_SET)

\* C13: on a timer-set call with a0 = T the handler clears any pending
\* supervisor timer IRQ, then enables the supervisor timer IRQ, returns
\* TimerIRQAt(Exact(T)) and leaves a0 = 0.
C13_TimerSet ==
    (sbi_call.set /\ IsTimerSet(sbi_call.frame))
    => /\ sbi_effects = <<"clear_supervisor_irq", "enable_supervisor_irq">>
       /\ sbi_action.kind = "TimerIRQAt"
       /\ sbi_action.x = Exact(sbi_call.frame[REG_A0])
       /\ context[REG_A0] = SBI_SUCCESS

\* a timer-set call was made through the timer extension with a target that
\* is not zero
C13_Witness ==
    /\ sbi_call.set
    /\ sbi_call.frame[REG_A7] = SBI_EXT_TIMER
    /\ sbi_call.frame[REG_A6] = SBI_EXT_TIMER_SET
    /\ sbi_call.frame[REG_A0] = 321
    /\ sbi_action.kind = "TimerIRQAt"

\* the (extension, function) pairs some arm of the handler names
ImplementedPair(e, f) ==
    \/ e \in { SBI_EXT_CONSOLE_PUTCHAR, SBI_EXT_CONSOLE_GETCHAR, SBI_EXT_SHUTDOWN,
               SBI_LEGACY_REMOTE_FENCE_I, SBI_LEGACY_SFENCE_VMA, SBI_LEGACY_TIMER_SET }
    \/ (e = SBI_EXT_BASE /\ f \in SBI_EXT_BASE_GET_SPEC_VERSION .. SBI_EXT_BASE_GET_MIMPLD)
    \/ (e = SBI_EXT_RFENCE /\ f \in {SBI_EXT_RFENCE_I, SBI_EXT_RFENCE_SFENCE_VMA})
    \/ (e = SBI_EXT_TIMER /\ f = SBI_EXT_TIMER_SET)
    \/ (e = SBI_EXT_SYS_RESET /\ f = SBI_EXT_SYS_RESET_FUNC)
    \/ (e = SBI_EXT_DIOSIX /\ f \in SBI_EXT_DIOSIX_YIELD .. SBI_EXT_DIOSIX_HV_GETC)

\* C16: for every (extension, function) pair the handler does not implement,
\* it returns Unknown(extension, function) and sets a0 to NOT_SUPPORTED; it
\* returns for every call.
C16_UnknownCalls ==
    (sbi_call.set /\ ~ImplementedPair(sbi_call.frame[REG_A7], sbi_call.frame[REG_A6]))
    => /\ sbi_action = Action("Unknown", sbi_call.frame[REG_A7], sbi_call.frame[REG_A6])
       /\ context[REG_A0] = SBI_ERR_NOT_SUPPORTED

\* a call was made to a function the base extension does not have, with a
\* register value wider than a byte
C16_Witness ==
    /\ sbi_call.set
    /\ sbi_call.frame[REG_A7] = SBI_EXT_BASE
    /\ sbi_call.frame[REG_A6] = 7
    /\ sbi_call.frame[REG_A0] = 321
    /\ sbi_action.kind = "Unknown"

(***************************************************************************)
(* Claims about instruction emulation.                                     *)
(***************************************************************************)
\* the word is csrrs rd, time, x0: CSR 0xc01, rs1 = x0, funct3 = 2, opcode SYSTEM
IsRdTime(w) ==
    /\ w.hi = 49168
    /\ w.lo % 128 = 115
    /\ (w.lo \div 4096) = 2

\* the rd field of an instruction word: bits 7 to 11
RdField(w) == (w.lo \div 128) % 32

\* C14: when the trapping instruction is csrrs rd, time, x0 and a timer is
\* pinned, emulate writes the pinned timer's tick count into slot rd of the
\* frame, advances the machine exception PC by exactly 4, changes no other
\* slot, and returns Success.
C14_RdTimeEmulated ==
    (emu.done /\ emu.fetched # <<>> /\ IsRdTime(emu.instruction) /\ pinned_timer.some)
    => /\ emu.result = "Success"
       /\ context = [emu.frame EXCEPT ![RdField(emu.instruction)] = clint_now]
       /\ csr["mepc"] = emu.mepc + 4

\* a supervisor's csrrs x31, time, x0 was fetched through a three-level walk
\* and emulated with a timer pinned
C14_Witness ==
    /\ emu.done
    /\ emu.priv_mode = "Supervisor"
    /\ emu.satp.mode = RV64_SATP_MODE_SV39
    /\ emu.instruction = RdTime(31)
    /\ emu.fetched = <<PAGE_SIZE + 4>>
    /\ pinned_timer.some
    /\ context[31] = clint_now
    /\ emu.frame[31] # clint_now

\* the walk of the exception PC of the latest emulate() call
EmuWalk == supervisor_addr_to_phys(pmp, emu.satp, emu.entries, emu.mepc)

\* C15: for a trap from supervisor mode, if the walk of the exception PC
\* fails or the translated address fails PMP validation, emulate returns
\* CantAccess without reading the instruction word and without changing the
\* frame or the exception PC.
C15_CantAccess ==
    (/\ emu.done
     /\ emu.priv_mode = "Supervisor"
     /\ \/ EmuWalk.outcome = "none"
        \/ (EmuWalk.outcome = "some" /\ ~validate_pmp_phys_addr(pmp, EmuWalk.paddr).some))
    => /\ emu.result = "CantAccess"
       /\ emu.fetched = <<>>
       /\ context = emu.frame
       /\ csr["mepc"] = emu.mepc

\* a supervisor's PC translated through three levels to an address outside
\* every PMP window, with a read-time instruction there and a timer pinned
C15_Witness ==
    /\ emu.done
    /\ emu.priv_mode = "Supervisor"
    /\ EmuWalk.outcome = "some"
    /\ ~validate_pmp_phys_addr(pmp, EmuWalk.paddr).some
    /\ Len(EmuWalk.trace.loads) = 3
    /\ IsRdTime(emu.instruction)
    /\ pinned_timer.some

\* C17: the pinned timer slot is written at most once: a call that finds a
\* timer in the slot does not write the slot and leaves its value as it was
\* (Devices::new, pin and the two getters, called by any core in any order).
C17_PinnedOnce ==
    (pin_op.op # "none" /\ pin_op.pre.some) =>
        (~pin_op.wrote /\ pinned_timer = pin_op.pre)

\* C19: with a tree that parses, names a model and counts its cores,
\* Devices::new fails when a /memory@ node cannot be read; otherwise it
\* succeeds, without a console when the console cannot be set up and
\* without a scheduler timer when the timer cannot be read.
RamFails(tree) == \E i \in 1..Len(tree.memory) : ~get_ram_chunk(tree.memory[i]).ok

ConsoleFails(tree) == ~setup_debug_console(tree).ok

TimerFails(tree) == tree.clint # <<>> /\ ~get_system_timer(tree.tbf, tree.clint[1]).ok

Parses(tree) ==
    /\ tree.blob
    /\ tree.model.kind = "text"
    /\ CountCores(tree.cpus, tree.cpu_cells).ok

C19_ErrorPolicy ==
    (devices.done /\ Parses(devices.tree)) =>
        IF RamFails(devices.tree) THEN ~devices.result.ok
        ELSE /\ devices.result.ok
             /\ ConsoleFails(devices.tree) => ~devices.result.val.debug_console.some
             /\ TimerFails(devices.tree) => ~devices.result.val.scheduler_timer.some

\* C18: when the iterator has returned None, the areas it yielded are in
\* ascending order and pairwise disjoint, none overlaps the footprint, and
\* together they hold exactly the addresses of the total RAM area that are
\* not in the footprint; and the iterator never panics.
RamAddrs == 0 .. 40

AddrsOf(area) == { a \in RamAddrs : area.base <= a /\ a < area.base + area.size }

Yielded == ram_areas.areas

C18_AreasSkipFootprint ==
    /\ ram_areas.ended # "panic"
    /\ ram_areas.ended = "None" =>
        /\ \A i \in 1..Len(Yielded) : Yielded[i].size >= 0
        /\ \A i, j \in 1..Len(Yielded) :
              i < j => Yielded[i].base + Yielded[i].size <= Yielded[j].base
        /\ \A i \in 1..Len(Yielded) :
              AddrsOf(Yielded[i]) \cap AddrsOf(ram_iter.kernel_area) = {}
        /\ UNION { AddrsOf(Yielded[i]) : i \in 1..Len(Yielded) }
              = AddrsOf(ram_iter.total_area) \ AddrsOf(ram_iter.kernel_area)

\* C20: in an Sv39 walk, whenever the entry read at a level has its valid
\* bit clear, or is valid with W set and neither R nor X, the walk returns
\* None; whichever of the three levels the entry is read at.  (The table of
\* level lvl is the (SV39_VPN_COUNT - lvl)th the walk loads; a walk that
\* panics has loaded its last table and read no entry of it.)
EntryRead(lvl) ==
    /\ walk.done
    /\ walk.satp.mode = RV64_SATP_MODE_SV39
    /\ Len(walk.res.trace.loads) >= SV39_VPN_COUNT - lvl
    /\ walk.res.outcome = "panic" => Len(walk.res.trace.loads) > SV39_VPN_COUNT - lvl

EntryInvalid(entry) == BitAnd(entry % 256, PAGE_BITS_VALID) = 0

EntryWriteOnly(entry) ==
    /\ BitAnd(entry % 256, PAGE_BITS_VALID) = PAGE_BITS_VALID
    /\ BitAnd(entry % 256, PAGE_BITS_WRITE) = PAGE_BITS_WRITE
    /\ BitAnd(entry % 256, PAGE_BITS_READ) = 0
    /\ BitAnd(entry % 256, PAGE_BITS_EXEC) = 0

C20_InvalidOrWriteOnlyFails ==
    \A lvl \in Levels :
        (EntryRead(lvl) /\ (EntryInvalid(walk.entries[lvl]) \/ EntryWriteOnly(walk.entries[lvl])))
            => walk.res.outcome = "none"

\* a walk that went down two tables and found a write-only leaf at level 0
C20_Witness ==
    /\ EntryRead(0)
    /\ EntryWriteOnly(walk.entries[0])
    /\ walk.res.outcome = "none"

\* the level of the last table the walk loaded, the entry read there and
\* its PPN field
LastLevel == SV39_VPN_COUNT - Len(walk.res.trace.loads)

LastEntry == walk.entries[LastLevel]

PpnOf(entry) == LowBits(Shr(entry, SV39_PTE_PPN_BASE_SHIFT), SV39_PTE_PPN_FULL_BITS)

\* the walk ended at a valid entry with R or X set, above level 0
SuperpageLeaf ==
    /\ walk.done
    /\ walk.satp.mode = RV64_SATP_MODE_SV39
    /\ walk.res.outcome # "panic"
    /\ LastLevel \in 1 .. SV39_VPN_COUNT - 1
    /\ BitAnd(LastEntry % 256, PAGE_BITS_VALID) = PAGE_BITS_VALID
    /\ \/ BitAnd(LastEntry % 256, PAGE_BITS_READ) = PAGE_BITS_READ
       \/ BitAnd(LastEntry % 256, PAGE_BITS_EXEC) = PAGE_BITS_EXEC

\* the PPN fields of the leaf below its level are all zero
Aligned == LowBits(PpnOf(LastEntry), SV39_PTE_PPN_SHIFT * LastLevel) = 0

\* C21: a superpage leaf (a leaf at level 1 or 2) whose PPN fields below its
\* level are not all zero makes the walk return None.
C21_MisalignedSuperpageFails ==
    (SuperpageLeaf /\ ~Aligned) => walk.res.outcome = "none"

\* C22: for an aligned superpage leaf at level L the walk returns the
\* address made of the leaf's PPN at and above bit 12 + 9L and of the
\* virtual address's bits below bit 12 + 9L.
C22_SuperpageAddress ==
    (SuperpageLeaf /\ Aligned) =>
        /\ walk.res.outcome = "some"
        /\ walk.res.paddr =
              Shl(PpnOf(LastEntry), SV39_PHYS_PPN_BASE_SHIFT)
              + LowBits(LowBits(walk.saddr, SV39_VADDR_BITS),
                        SV39_VPN_BASE_SHIFT + SV39_VPN_SHIFT * LastLevel)

\* C23: acknowledge() clears the pending bit of the cause it is given when
\* that is a software, timer or external interrupt of user, supervisor or
\* machine level, and nothing else; for every other cause it leaves mip as
\* it found it.
PendingBit(cause) ==
    CASE cause = "UserSWI" -> 0
      [] cause = "SupervisorSWI" -> 1
      [] cause = "MachineSWI" -> 3
      [] cause = "UserTimer" -> 4
      [] cause = "SupervisorTimer" -> 5
      [] cause = "MachineTimer" -> 7
      [] cause = "UserInterrupt" -> 8
      [] cause = "SupervisorInterrupt" -> 9
      [] cause = "MachineInterrupt" -> 11
      [] OTHER -> -1

C23_AcknowledgeClearsPending ==
    acked.done =>
        IF PendingBit(irq.cause) >= 0
        THEN mip = ClearBits(acked.pre, Shl(1, PendingBit(irq.cause)))
        ELSE mip = acked.pre

\* C26: when the trapping instruction is wfi and it can be fetched, emulate
\* returns Yield and advances the machine exception PC by 4.
C26_WfiYields ==
    (emu.done /\ emu.fetched # <<>> /\ emu.instruction = Wfi)
    => /\ emu.result = "Yield"
       /\ csr["mepc"] = emu.mepc + 4

(***************************************************************************)
(* Claims about protect's return value and its frame.                      *)
(***************************************************************************)
\* protect's call wrote both address registers of region r: they exist and hold
\* the base and end it was given (as given, or as shifted right by two)
RegionAddrsWritten(r, base, end) ==
    /\ 2 * r + 1 \in PmpAddrRegs
    /\ pmp.addr[2 * r] \in {base, Shr(base, 2)}
    /\ pmp.addr[2 * r + 1] \in {end, Shr(end, 2)}

\* C27: protect returns true only when the region was programmed, its config
\* byte and both of its address registers existing and written; for every
\* region ID without a pair of hardware entries (8 and up) it returns false
\* and changes no PMP config or address register.
C27_ProtectOnlyProgrammed ==
    last_protect.called =>
        /\ last_protect.ret =>
               /\ PmpCfgSelect(last_protect.regionid).reg \in PmpCfgRegs
               /\ RegionAddrsWritten(last_protect.regionid, last_protect.base,
                                     last_protect.end)
        /\ last_protect.regionid >= PmpRegions =>
               /\ ~last_protect.ret
               /\ pmp = last_protect.pre

\* the registers that govern region r: its two address registers and the
\* config bytes of its base and end entries
RegionRegisters(p, r) ==
    <<p.addr[2 * r], p.addr[2 * r + 1], PmpEntryCfg(p, 2 * r), PmpEntryCfg(p, 2 * r + 1)>>

\* C28: protect on region r leaves every other region untouched: for every
\* r' other than r the address registers and the config bytes of the base and
\* end entries of r' are what they were before the call.
C28_ProtectFrame ==
    (last_protect.called /\ last_protect.regionid < PmpRegions) =>
        \A r \in 0 .. PmpRegions - 1 :
            r # last_protect.regionid
            => RegionRegisters(pmp, r) = RegionRegisters(last_protect.pre, r)

\* the area lies inside the total RAM area the iterator was built over
InTotal(area) ==
    /\ area.base >= ram_iter.total_area.base
    /\ area.base + area.size <= ram_iter.total_area.base + ram_iter.total_area.size

\* C29: every area the iterator yields is a non-empty sub-range of the total
\* RAM area, wherever the footprint lies, and no subtraction underflows; it
\* yields at most two areas, then returns None and keeps returning None.
C29_AreasInsideRam ==
    /\ ram_areas.ended # "panic"
    /\ Len(Yielded) <= 2
    /\ \A i \in 1..Len(Yielded) : Yielded[i].size > 0 /\ InTotal(Yielded[i])
    /\ ram_areas.again \in {"no", "None"}

\* C30: handler() changes no slot of the trap frame other than a0 and a1, for
\* every call; and every payload of the action it returns (character, capsule
\* ID, service ID, timer target) is taken from the argument register as it
\* was on entry, not as the handler's return values left it.
C30_HandlerTouchesA0A1Only ==
    sbi_call.set =>
        /\ \A k \in ContextSlots \ {REG_A0, REG_A1} : context[k] = sbi_call.frame[k]
        /\ sbi_action.kind = "OutputChar"
           => sbi_action.x = sbi_call.frame[REG_A0] % 256
        /\ sbi_action.kind = "RegisterService"
           => sbi_action.x = sbi_call.frame[REG_A0]
        /\ sbi_action.kind = "ConsoleBufferWriteChar"
           => /\ sbi_action.x = BitAnd(sbi_call.frame[REG_A0], 255)
              /\ sbi_action.y = sbi_call.frame[REG_A1]
        /\ sbi_action.kind = "TimerIRQAt"
           => sbi_action.x = Exact(sbi_call.frame[REG_A0])

\* a character is written to capsule 7's buffer by a guest whose a2 holds 9:
\* the handler has overwritten a0 and a1 and the action carries what they held
C30_Witness ==
    /\ sbi_call.set
    /\ sbi_call.frame[REG_A7] = SBI_EXT_DIOSIX
    /\ sbi_call.frame[REG_A6] = SBI_EXT_DIOSIX_CONSOLE_PUTC
    /\ sbi_call.frame[REG_A0] = 321
    /\ sbi_call.frame[REG_A1] = 7
    /\ sbi_call.frame[REG_A2] = 9
    /\ context[REG_A0] = SBI_SUCCESS
    /\ context[REG_A1] = 0
    /\ sbi_action = Action("ConsoleBufferWriteChar", 65, 7)

====
